---- MODULE Spec2Model ----
(***************************************************************************)
(* cartcompare: the retailer acquisition pipelines (walmart2.py,           *)
(* superstore.py, sobeys.py), the rate-limit gate, the relevance filter,   *)
(* the ranking and enrichment step and the cheapest-option selector        *)
(* (integrate_scrapers.py), as state machines and operators.               *)
(*                                                                         *)
(* Conventions.  Text is a sequence of one-character strings.  Prices are  *)
(* integers in cents; normalized unit prices are integers in 1/10000 of a  *)
(* dollar (the code rounds them to 4 decimals).  None is Python's None.    *)
(* Each sub-system has its own specification over the shared variables;    *)
(* a specification leaves the variables of the other sub-systems fixed.    *)
(***************************************************************************)
EXTENDS Integers, Sequences, FiniteSets, TLC

VARIABLES
    \* ---- one retailer pipeline call (scrape_walmart_cole_harbour,
    \*      scrape_superstore, scrape_sobeys)
    retailer,       \* which pipeline runs
    pc,             \* position of the call in its code
    attempt,        \* loop variable of the polling loop
    is_blocked,     \* local is_blocked / blocked of the last inspection
    has_data,       \* local has_data / has_next of the last inspection
    step,           \* branch the polling loop took at its last iteration
    browser,        \* "none" | "open" | "closed" | "stopped"
    ret,            \* "pending" | "results" | "empty" | "exception"
    failure,        \* history: the first step of the call that failed
    use_persistent_session,
    session_io,     \* history: sequence of session-store accesses
    \* ---- the rate-limit gate of walmart2.py (_check_rate_limit)
    now,                \* the clock, in seconds (time.time())
    LAST_REQUEST_TIME,  \* the module global
    gate_pc,            \* "idle" | "sleeping" | "running"; per call under
                        \* concurrent calls: "start" | "sleeping" | "left"
    wake_at,            \* the instant the pending asyncio.sleep may return
    calls,              \* calls started so far
    gate_log,           \* history: per call [arrived, slept, left]
    \* ---- the cheapest-option selector (_find_cheapest_option)
    stores_dict,        \* its argument: store name -> list of records
    best,               \* its result, or "pending" before the call
    \* ---- one call of _filter_and_rank
    query,              \* argument query
    items,              \* argument items
    limit,              \* argument limit
    filtered,           \* its local list filtered, before the sort
    ranked,             \* its result or exception, or "pending"
    \* ---- search_all_products and the comparison that follows it
    products,           \* PRODUCTS_TO_SEARCH
    idx,                \* position of the loop in products
    phase,              \* "begin" | "superstore" | "walmart" | "compare" | "done"
    scraped,            \* history: what each scrape call returned or raised
    results,            \* the dict results: product -> store -> list
    deals,              \* per product, what _find_cheapest_option returned
    \* ---- _enrich_unit_prices on one record, and again on its result
    extracted,          \* the argument: a record as the extractor built it
    enriched,           \* result or exception of the call, or "pending"
    reenriched,         \* the same for the call on the first result
    \* ---- one extraction pass over a parsed document
    site,               \* the retailer whose extraction runs
    data,               \* the parsed document
    found,              \* the list the loop goes over, "pending" before
    pos,                \* position of the loop in found
    seen,               \* the set seen of identifiers
    emitted,            \* the list results under construction
    extract_ret         \* what the pass returned, or "pending"

pipeVars == <<retailer, pc, attempt, is_blocked, has_data, step, browser, ret,
              failure, use_persistent_session, session_io>>

rateVars == <<now, LAST_REQUEST_TIME, gate_pc, wake_at, calls, gate_log>>

selVars == <<stores_dict, best>>

filterVars == <<query, items, limit, filtered, ranked>>

searchVars == <<products, idx, phase, scraped, results, deals>>

enrichVars == <<extracted, enriched, reenriched>>

extractVars == <<site, data, found, pos, seen, emitted, extract_ret>>

notPipeVars == <<rateVars, selVars, filterVars, searchVars, enrichVars, extractVars>>
notRateVars == <<pipeVars, selVars, filterVars, searchVars, enrichVars, extractVars>>
notSelVars == <<pipeVars, rateVars, filterVars, searchVars, enrichVars, extractVars>>
notFilterVars == <<pipeVars, rateVars, selVars, searchVars, enrichVars, extractVars>>
notSearchVars == <<pipeVars, rateVars, selVars, filterVars, enrichVars, extractVars>>
notEnrichVars == <<pipeVars, rateVars, selVars, filterVars, searchVars, extractVars>>
notExtractVars == <<pipeVars, rateVars, selVars, filterVars, searchVars, enrichVars>>

(***************************************************************************)
(* Python values of more than one type: None, a number, a string.          *)
(***************************************************************************)
None == <<"None">>
Num(n) == <<"num", n>>
Str(t) == <<"str", t>>
IsNum(v) == v[1] = "num"
IsStr(v) == v[1] = "str"
Val(v) == v[2]
\* a dict where None is possible too
Dict(d) == <<"dict", d>>
IsDict(v) == v[1] = "dict"
\* the value of a variable before the code assigned it, and after
Pending == <<"pending">>
Returned(v) == <<"returned", v>>

Retailers == {"walmart", "superstore", "sobeys"}

\* range(120) in walmart2.py, range(60) in superstore.py and sobeys.py
WalmartAttempts == 120
SuperstoreAttempts == 60
SobeysAttempts == 60
\* sobeys.py: "elif i >= 5" leaves the loop when nothing was seen
SobeysGiveUpAfter == 5

AttemptBudget(r) ==
    IF r = "walmart" THEN WalmartAttempts
    ELSE IF r = "superstore" THEN SuperstoreAttempts
    ELSE SobeysAttempts

(***************************************************************************)
(* The branch of the polling loop body, from the two findings of one       *)
(* inspection.  "blocked_wait": sleep and poll again; "break": leave the   *)
(* loop; "idle_wait": short sleep and poll again; "give_up": Sobeys only,  *)
(* leave the loop without a marker.                                        *)
(***************************************************************************)
PollBranchBlockFirst(r, blocked, marker, i) ==
    IF blocked THEN "blocked_wait"
    ELSE IF marker THEN "break"
    ELSE IF r = "sobeys" /\ i >= SobeysGiveUpAfter THEN "give_up"
    ELSE "idle_wait"

PollBranchGiveUpFirst(r, blocked, marker, i) ==
    IF marker THEN "break"
    ELSE IF r = "sobeys" /\ i >= SobeysGiveUpAfter THEN "give_up"
    ELSE IF blocked THEN "blocked_wait"
    ELSE "idle_wait"

PollBranch(r, blocked, marker, i) ==
    IF blocked /\ ~marker THEN "blocked_wait"
    ELSE IF marker THEN "break"
    ELSE IF r = "sobeys" /\ i >= SobeysGiveUpAfter THEN "give_up"
    ELSE "idle_wait"

\* where the code goes after the polling loop
AfterPolling(r) == IF r = "sobeys" THEN "Extracting" ELSE "AwaitMarker"

\* _safe_close swallows every exception of close(); browser.close() does not
CloseCanRaise(r) == r # "walmart"

Fail(kind) == failure' = IF failure = "none" THEN kind ELSE failure

PipeInit ==
    /\ retailer \in Retailers
    /\ pc = IF retailer = "walmart" THEN "RateLimitWait" ELSE "Launch"
    /\ attempt = 0
    /\ is_blocked = FALSE
    /\ has_data = FALSE
    /\ step = "none"
    /\ browser = "none"
    /\ ret = "pending"
    /\ failure = "none"
    /\ use_persistent_session \in BOOLEAN
    /\ session_io = <<>>

\* walmart2.py:131 the gate is passed before anything else; the two other
\* pipelines have no gate
RateLimitWait ==
    /\ pc = "RateLimitWait"
    /\ pc' = "Launch"
    /\ UNCHANGED <<retailer, attempt, is_blocked, has_data, step, browser, ret,
                   failure, use_persistent_session, session_io>>
    /\ UNCHANGED notPipeVars

\* async_playwright() and chromium.launch(): outside every try block
LaunchBrowser ==
    /\ pc = "Launch"
    /\ \E launchFails \in BOOLEAN :
         IF launchFails
         THEN /\ pc' = "ScopeExit"
              /\ ret' = "exception"
              /\ Fail("launch")
              /\ UNCHANGED browser
         ELSE /\ pc' = "Setup"
              /\ browser' = "open"
              /\ UNCHANGED <<ret, failure>>
    /\ UNCHANGED <<retailer, attempt, is_blocked, has_data, step,
                   use_persistent_session, session_io>>
    /\ UNCHANGED notPipeVars

\* session load (Walmart), new_context, add_cookies / add_init_script,
\* new_page: outside every try block; the session load has its own try
SetupContext ==
    /\ pc = "Setup"
    /\ \E sessionFileExists \in BOOLEAN, setupFails \in BOOLEAN :
         /\ session_io' =
               IF retailer = "walmart" /\ use_persistent_session /\ sessionFileExists
               THEN Append(session_io, "read") ELSE session_io
         /\ IF setupFails
            THEN /\ pc' = "ScopeExit"
                 /\ ret' = "exception"
                 /\ Fail("setup")
            ELSE /\ pc' = IF retailer = "superstore" THEN "Navigating" ELSE "Home"
                 /\ UNCHANGED <<ret, failure>>
    /\ UNCHANGED <<retailer, attempt, is_blocked, has_data, step, browser,
                   use_persistent_session>>
    /\ UNCHANGED notPipeVars

\* homepage visit of Walmart and Sobeys: its exceptions are swallowed
NavigateHome ==
    /\ pc = "Home"
    /\ pc' = "Navigating"
    /\ UNCHANGED <<retailer, attempt, is_blocked, has_data, step, browser, ret,
                   failure, use_persistent_session, session_io>>
    /\ UNCHANGED notPipeVars

\* page.goto(search url) and what follows it up to the polling loop, inside
\* the try block.  Sobeys returns [] when the page closed under it.
NavigateSearch ==
    /\ pc = "Navigating"
    /\ \E gotoFails \in BOOLEAN, pageClosed \in BOOLEAN :
         IF gotoFails
         THEN pc' = "Except" /\ Fail("navigation")
         ELSE IF retailer = "sobeys" /\ pageClosed
         THEN pc' = "CloseEmpty" /\ Fail("navigation")
         ELSE pc' = "PollingForData" /\ UNCHANGED failure
    /\ UNCHANGED <<retailer, attempt, is_blocked, has_data, step, browser, ret,
                   use_persistent_session, session_io>>
    /\ UNCHANGED notPipeVars

\* One iteration of the polling loop: one inspection of the page.
Poll ==
    /\ pc = "PollingForData"
    /\ attempt < AttemptBudget(retailer)
    /\ \E contentFails \in BOOLEAN, notFound \in BOOLEAN, blocked \in BOOLEAN,
          marker \in BOOLEAN, countFails \in BOOLEAN :
         LET next == IF attempt + 1 = AttemptBudget(retailer)
                     THEN AfterPolling(retailer) ELSE "PollingForData"
             branch == PollBranch(retailer, blocked, marker, attempt)
         IN
         IF contentFails
         THEN \* page.content() raised
              /\ step' = "content_error"
              /\ UNCHANGED <<is_blocked, has_data>>
              /\ IF retailer = "walmart"
                 THEN attempt' = attempt + 1 /\ pc' = next /\ UNCHANGED failure
                 ELSE IF retailer = "sobeys"
                 THEN UNCHANGED attempt /\ pc' = "CloseEmpty" /\ Fail("inspect")
                 ELSE UNCHANGED attempt /\ pc' = "Except" /\ Fail("inspect")
         ELSE IF retailer = "sobeys" /\ notFound
         THEN /\ step' = "not_found"
              /\ pc' = "CloseEmpty"
              /\ Fail("not_found")
              /\ UNCHANGED <<attempt, is_blocked, has_data>>
         ELSE IF countFails
         THEN \* locator.count() raised: is_blocked is set, has_data is not
              /\ step' = "count_error"
              /\ is_blocked' = blocked
              /\ pc' = "Except"
              /\ Fail("inspect")
              /\ UNCHANGED <<attempt, has_data>>
         ELSE /\ is_blocked' = blocked
              /\ has_data' = marker
              /\ step' = branch
              /\ UNCHANGED failure
              /\ IF branch \in {"break", "give_up"}
                 THEN pc' = AfterPolling(retailer) /\ UNCHANGED attempt
                 ELSE pc' = next /\ attempt' = attempt + 1
    /\ UNCHANGED <<retailer, browser, ret, use_persistent_session, session_io>>
    /\ UNCHANGED notPipeVars

\* Walmart and Superstore: script_locator.wait_for(state="attached").
\* Walmart reloads once when the wait times out.
AwaitMarker ==
    /\ pc = "AwaitMarker"
    /\ \E attached \in BOOLEAN, reloadFails \in BOOLEAN, markerNow \in BOOLEAN :
         IF attached
         THEN pc' = "Extracting" /\ UNCHANGED failure
         ELSE IF retailer = "walmart" /\ ~reloadFails /\ markerNow
         THEN pc' = "Extracting" /\ UNCHANGED failure
         ELSE pc' = "CloseEmpty"
              /\ Fail(IF is_blocked /\ ~has_data THEN "block" ELSE "document")
    /\ UNCHANGED <<retailer, attempt, is_blocked, has_data, step, browser, ret,
                   use_persistent_session, session_io>>
    /\ UNCHANGED notPipeVars

\* Reading the embedded document and parsing it: inner_text(), json.loads,
\* the slice between the first "{" and the last "}", isinstance(data, dict).
ReadDocument ==
    /\ pc = "Extracting"
    /\ \E readFails \in BOOLEAN,
          doc \in {"dict", "recoverable", "malformed", "not_a_dict"} :
         IF readFails
         THEN pc' = "Except" /\ Fail("document")
         ELSE IF doc \in {"dict", "recoverable"}
         THEN pc' = "FieldExtract" /\ UNCHANGED failure
         ELSE pc' = "CloseEmpty" /\ Fail("document")
    /\ UNCHANGED <<retailer, attempt, is_blocked, has_data, step, browser, ret,
                   use_persistent_session, session_io>>
    /\ UNCHANGED notPipeVars

\* Building the record list.  Walmart: itemStacks missing or of an
\* unexpected shape returns []; an exception after the list is built
\* (_simulate_human_behavior) reaches the outer handler.
ExtractFields ==
    /\ pc = "FieldExtract"
    /\ \E stacks \in {"some", "none", "bad_shape"}, laterFails \in BOOLEAN :
         IF retailer = "walmart" /\ stacks # "some"
         THEN pc' = "CloseEmpty" /\ Fail("document")
         ELSE IF laterFails
         THEN pc' = "Except" /\ Fail("extract")
         ELSE /\ pc' = IF retailer = "walmart" THEN "SaveSession" ELSE "CloseResults"
              /\ UNCHANGED failure
    /\ UNCHANGED <<retailer, attempt, is_blocked, has_data, step, browser, ret,
                   use_persistent_session, session_io>>
    /\ UNCHANGED notPipeVars

SaveSessionAlways ==
    /\ pc = "SaveSession"
    /\ \E saveFails \in BOOLEAN :
         session_io' = IF ~saveFails
                       THEN Append(session_io, "write") ELSE session_io
    /\ pc' = "CloseResults"
    /\ UNCHANGED <<retailer, attempt, is_blocked, has_data, step, browser, ret,
                   failure, use_persistent_session>>
    /\ UNCHANGED notPipeVars

\* walmart2.py:562-571 the session is written inside its own try
SaveSession ==
    /\ pc = "SaveSession"
    /\ \E saveFails \in BOOLEAN :
         session_io' = IF use_persistent_session /\ ~saveFails
                       THEN Append(session_io, "write") ELSE session_io
    /\ pc' = "CloseResults"
    /\ UNCHANGED <<retailer, attempt, is_blocked, has_data, step, browser, ret,
                   failure, use_persistent_session>>
    /\ UNCHANGED notPipeVars

\* "await _safe_close(context, browser)" or "await browser.close()" followed
\* by "return []" / "return results", inside the try block
CloseAndReturn ==
    /\ pc \in {"CloseEmpty", "CloseResults"}
    /\ \E closeFails \in BOOLEAN :
         IF closeFails
         THEN /\ UNCHANGED browser
              /\ IF CloseCanRaise(retailer)
                 THEN pc' = "Except" /\ Fail("close") /\ UNCHANGED ret
                 ELSE /\ pc' = "ScopeExit"
                      /\ ret' = IF pc = "CloseEmpty" THEN "empty" ELSE "results"
                      /\ Fail("close")
         ELSE /\ browser' = "closed"
              /\ pc' = "ScopeExit"
              /\ ret' = IF pc = "CloseEmpty" THEN "empty" ELSE "results"
              /\ UNCHANGED failure
    /\ UNCHANGED <<retailer, attempt, is_blocked, has_data, step,
                   use_persistent_session, session_io>>
    /\ UNCHANGED notPipeVars

\* the outer "except Exception" handler: close, then return []
HandleException ==
    /\ pc = "Except"
    /\ \E closeFails \in BOOLEAN :
         IF closeFails
         THEN /\ UNCHANGED browser
              /\ Fail("close")
              /\ ret' = IF CloseCanRaise(retailer) THEN "exception" ELSE "empty"
         ELSE /\ browser' = "closed"
              /\ ret' = "empty"
              /\ UNCHANGED failure
    /\ pc' = "ScopeExit"
    /\ UNCHANGED <<retailer, attempt, is_blocked, has_data, step,
                   use_persistent_session, session_io>>
    /\ UNCHANGED notPipeVars

\* the end of "async with async_playwright() as p": leaving the block, by
\* return or by exception, stops the Playwright driver the block started,
\* and a browser launched from it that is still open goes down with it
ExitPlaywrightKeepsBrowser ==
    /\ pc = "ScopeExit"
    /\ pc' = "Done"
    /\ UNCHANGED <<retailer, attempt, is_blocked, has_data, step, browser, ret,
                   failure, use_persistent_session, session_io>>
    /\ UNCHANGED notPipeVars

ExitPlaywright ==
    /\ pc = "ScopeExit"
    /\ pc' = "Done"
    /\ browser' = IF browser = "open" THEN "stopped" ELSE browser
    /\ UNCHANGED <<retailer, attempt, is_blocked, has_data, step, ret,
                   failure, use_persistent_session, session_io>>
    /\ UNCHANGED notPipeVars

PipeNext ==
    \/ RateLimitWait
    \/ LaunchBrowser
    \/ SetupContext
    \/ NavigateHome
    \/ NavigateSearch
    \/ Poll
    \/ AwaitMarker
    \/ ReadDocument
    \/ ExtractFields
    \/ SaveSession
    \/ CloseAndReturn
    \/ HandleException
    \/ ExitPlaywright

(***************************************************************************)
(* The rate-limit gate, walmart2.py:19-44, under non-overlapping calls of  *)
(* scrape_walmart_cole_harbour.  Time is in whole seconds.                 *)
(***************************************************************************)
MIN_REQUEST_INTERVAL == 45
\* random.uniform(5, 15)
JitterMin == 5
JitterMax == 15

\* number of calls of one run of the model
MaxCalls == 3
\* value of the clock when the process starts (time.time() is never 0)
EpochStart == 1000

\* seconds between the return of a call and the next call
Gaps == {0, 44, 45, 60}
\* seconds a call runs after it left the gate
Durations == {0, 50}
\* seconds asyncio.sleep returns late
Oversleep == {0, 1}

\* values drawn for random.uniform(5, 15)
Jitters == {JitterMin, JitterMax}

\* "if LAST_REQUEST_TIME:"
Truthy(t) == IsNum(t) /\ Val(t) # 0

WaitTimeJitterOnly(elapsed, jitter) == jitter

\* wait_time = MIN_REQUEST_INTERVAL - elapsed + random.uniform(5, 15)
WaitTime(elapsed, jitter) == MIN_REQUEST_INTERVAL - elapsed + jitter

RateInit ==
    /\ now = EpochStart
    /\ LAST_REQUEST_TIME = None
    /\ gate_pc = "idle"
    /\ wake_at = 0
    /\ calls = 0
    /\ gate_log = <<>>

\* A call enters _check_rate_limit: it either goes to sleep, or stamps
\* LAST_REQUEST_TIME and leaves the gate at once.
GateEnter ==
    /\ gate_pc = "idle"
    /\ calls < MaxCalls
    /\ \E gap \in Gaps, jitter \in Jitters :
         LET t == now + gap
             early == Truthy(LAST_REQUEST_TIME)
                        /\ t - Val(LAST_REQUEST_TIME) < MIN_REQUEST_INTERVAL
             wait == WaitTime(t - Val(LAST_REQUEST_TIME), jitter)
         IN
         /\ now' = t
         /\ calls' = calls + 1
         /\ IF early
            THEN /\ gate_pc' = "sleeping"
                 /\ wake_at' = t + wait
                 /\ gate_log' = Append(gate_log,
                                  [arrived |-> t, slept |-> wait, left |-> None])
                 /\ UNCHANGED LAST_REQUEST_TIME
            ELSE /\ gate_pc' = "running"
                 /\ LAST_REQUEST_TIME' = Num(t)
                 /\ gate_log' = Append(gate_log,
                                  [arrived |-> t, slept |-> 0, left |-> Num(t)])
                 /\ UNCHANGED wake_at
    /\ UNCHANGED notRateVars

\* asyncio.sleep(wait_time) returns; LAST_REQUEST_TIME = time.time()
GateWake ==
    /\ gate_pc = "sleeping"
    /\ \E late \in Oversleep :
         LET t == (IF wake_at > now THEN wake_at ELSE now) + late IN
         /\ now' = t
         /\ LAST_REQUEST_TIME' = Num(t)
         /\ gate_log' = [gate_log EXCEPT ![Len(gate_log)].left = Num(t)]
    /\ gate_pc' = "running"
    /\ UNCHANGED <<wake_at, calls>>
    /\ UNCHANGED notRateVars

\* the rest of scrape_walmart_cole_harbour runs and the call returns
CallReturns ==
    /\ gate_pc = "running"
    /\ \E d \in Durations : now' = now + d
    /\ gate_pc' = "idle"
    /\ UNCHANGED <<LAST_REQUEST_TIME, wake_at, calls, gate_log>>
    /\ UNCHANGED notRateVars

RateNext ==
    \/ GateEnter
    \/ GateWake
    \/ CallReturns

(***************************************************************************)
(* The rate-limit gate under two calls of scrape_walmart_cole_harbour in   *)
(* one event loop (asyncio.gather, or two requests served by one loop).    *)
(* A coroutine runs without interruption from one await to the next: a     *)
(* call reads LAST_REQUEST_TIME and either stamps it at once or suspends   *)
(* in asyncio.sleep; the stamp of a call that slept is a second step.      *)
(* Here gate_pc, wake_at and gate_log hold one value per call.             *)
(***************************************************************************)
\* number of calls that run in the loop at once
MaxConcurrent == 2

Callers == 1..MaxConcurrent

\* seconds from the last step of the loop to the start of a call
StartGaps == {0, 1, 20}

\* seconds since the stamp a previous call left (None: no call before)
StampAges == {10, 44, 100}

\* no pending sleep is left behind by more than it may oversleep
NotPastWakeUps(t, c) ==
    \A d \in Callers \ {c} :
        gate_pc[d] = "sleeping" => \E late \in Oversleep : t <= wake_at[d] + late

ConcInit ==
    /\ now = EpochStart
    /\ LAST_REQUEST_TIME \in {None} \cup {Num(EpochStart - age) : age \in StampAges}
    /\ gate_pc = [c \in Callers |-> "start"]
    /\ wake_at = [c \in Callers |-> 0]
    /\ calls = 0
    /\ gate_log = [c \in Callers |-> None]

\* call c runs _check_rate_limit up to its await, or through to its end
ConcEnter(c) ==
    /\ gate_pc[c] = "start"
    /\ \E gap \in StartGaps, jitter \in Jitters :
         LET t == now + gap
             early == Truthy(LAST_REQUEST_TIME)
                        /\ t - Val(LAST_REQUEST_TIME) < MIN_REQUEST_INTERVAL
             wait == WaitTime(t - Val(LAST_REQUEST_TIME), jitter)
         IN
         /\ NotPastWakeUps(t, c)
         /\ now' = t
         /\ IF early
            THEN /\ gate_pc' = [gate_pc EXCEPT ![c] = "sleeping"]
                 /\ wake_at' = [wake_at EXCEPT ![c] = t + wait]
                 /\ gate_log' = [gate_log EXCEPT ![c] =
                        [arrived |-> t, read |-> LAST_REQUEST_TIME, slept |-> wait, left |-> None]]
                 /\ UNCHANGED LAST_REQUEST_TIME
            ELSE /\ gate_pc' = [gate_pc EXCEPT ![c] = "left"]
                 /\ LAST_REQUEST_TIME' = Num(t)
                 /\ gate_log' = [gate_log EXCEPT ![c] =
                        [arrived |-> t, read |-> LAST_REQUEST_TIME, slept |-> 0, left |-> Num(t)]]
                 /\ UNCHANGED wake_at
    /\ calls' = calls + 1
    /\ UNCHANGED notRateVars

\* the sleep of call c returns; LAST_REQUEST_TIME = time.time()
ConcWake(c) ==
    /\ gate_pc[c] = "sleeping"
    /\ \E late \in Oversleep :
         LET t == (IF wake_at[c] > now THEN wake_at[c] ELSE now) + late IN
         /\ NotPastWakeUps(t, c)
         /\ now' = t
         /\ LAST_REQUEST_TIME' = Num(t)
         /\ gate_log' = [gate_log EXCEPT ![c].left = Num(t)]
    /\ gate_pc' = [gate_pc EXCEPT ![c] = "left"]
    /\ UNCHANGED <<wake_at, calls>>
    /\ UNCHANGED notRateVars

ConcNext ==
    \/ \E c \in Callers : ConcEnter(c)
    \/ \E c \in Callers : ConcWake(c)

(***************************************************************************)
(* Records are Python dicts: functions from key to value.                  *)
(***************************************************************************)
\* dict.get(key): None when the key is absent
Get(d, k) == IF k \in DOMAIN d THEN d[k] ELSE None

\* dict.get(key, default)
GetOr(d, k, default) == IF k \in DOMAIN d THEN d[k] ELSE default

(***************************************************************************)
(* Text: a str is a sequence of one-character strings.                     *)
(***************************************************************************)
Uppers == <<"A", "B", "C", "D", "E", "F", "G", "H", "I", "J", "K", "L", "M",
            "N", "O", "P", "Q", "R", "S", "T", "U", "V", "W", "X", "Y", "Z">>
Lowers == <<"a", "b", "c", "d", "e", "f", "g", "h", "i", "j", "k", "l", "m",
            "n", "o", "p", "q", "r", "s", "t", "u", "v", "w", "x", "y", "z">>
Digits == <<"0", "1", "2", "3", "4", "5", "6", "7", "8", "9">>

IsUpper(c) == \E i \in 1..Len(Uppers) : Uppers[i] = c
IsAlpha(c) == IsUpper(c) \/ \E i \in 1..Len(Lowers) : Lowers[i] = c
IsDigit(c) == \E i \in 1..Len(Digits) : Digits[i] = c
IsSpace(c) == c = " "
DigitValue(c) == (CHOOSE i \in 1..Len(Digits) : Digits[i] = c) - 1

\* str.lower()
LowerChar(c) ==
    IF IsUpper(c) THEN Lowers[CHOOSE i \in 1..Len(Uppers) : Uppers[i] = c] ELSE c

Lower(t) == [i \in 1..Len(t) |-> LowerChar(t[i])]

\* "needle in hay" on str
Contains(hay, needle) ==
    \E i \in 0..(Len(hay) - Len(needle)) :
        \A k \in 1..Len(needle) : hay[i + k] = needle[k]

\* str.strip()
Strip(t) ==
    LET keep == {i \in 1..Len(t) : ~IsSpace(t[i])} IN
    IF keep = {} THEN <<>>
    ELSE SubSeq(t, CHOOSE i \in keep : \A j \in keep : i <= j,
                   CHOOSE i \in keep : \A j \in keep : i >= j)

\* str.replace("%", "% ")
RECURSIVE ReplacePercent(_)
ReplacePercent(t) ==
    IF t = <<>> THEN <<>>
    ELSE (IF Head(t) = "%" THEN <<"%", " ">> ELSE <<Head(t)>>)
         \o ReplacePercent(Tail(t))

\* set(str.split()): the maximal runs without whitespace
SplitSet(t) ==
    {SubSeq(t, i, j) : <<i, j>> \in
        {p \in (1..Len(t)) \X (1..Len(t)) :
            /\ p[1] <= p[2]
            /\ \A k \in p[1]..p[2] : ~IsSpace(t[k])
            /\ (p[1] = 1 \/ IsSpace(t[p[1] - 1]))
            /\ (p[2] = Len(t) \/ IsSpace(t[p[2] + 1]))}}

(***************************************************************************)
(* Numbers.  A float the code parses from decimal text is kept as the      *)
(* decimal [n, k] = n / 10^k; a quotient of two of them as a reduced       *)
(* ratio; a float the code rounds to 4 decimals as an integer count of     *)
(* 0.0001 (E4).  round() and the .2f / .4f formats are taken on the exact  *)
(* quotient, half to even.                                                 *)
(***************************************************************************)
E4(n) == <<"e4", n>>
Ratio(n, d) == <<"ratio", n, d>>
Tuple(t) == <<"tuple", t>>
Raise(e) == <<"raise", e>>
IsRaise(v) == v[1] = "raise"

RECURSIVE Pow10(_)
Pow10(k) == IF k = 0 THEN 1 ELSE 10 * Pow10(k - 1)

RECURSIVE GCD(_, _)
GCD(a, b) == IF b = 0 THEN a ELSE GCD(b, a % b)

Reduced(n, d) == LET g == GCD(n, d) IN Ratio(n \div g, d \div g)

RoundDown(num, den) == num \div den

\* round(num / den), half to even; on an exact tie Python rounds the binary
\* float, which lies to one side of it: the inputs used here have no tie
RoundHalfEven(num, den) ==
    LET q == num \div den
        r == num % den
    IN IF 2 * r < den THEN q
       ELSE IF 2 * r > den THEN q + 1
       ELSE IF q % 2 = 0 THEN q ELSE q + 1

RECURSIVE DigitsToInt(_)
DigitsToInt(t) ==
    IF t = <<>> THEN 0
    ELSE 10 * DigitsToInt(SubSeq(t, 1, Len(t) - 1)) + DigitValue(t[Len(t)])

RECURSIVE IntText(_)
IntText(n) ==
    IF n < 10 THEN <<Digits[n + 1]>>
    ELSE IntText(n \div 10) \o <<Digits[(n % 10) + 1]>>

\* the last k digits of n, zero padded
RECURSIVE PadText(_, _)
PadText(n, k) ==
    IF k = 0 THEN <<>> ELSE PadText(n \div 10, k - 1) \o <<Digits[(n % 10) + 1]>>

\* f"{x:.kf}" of x = units / 10^k
FormatFixed(units, k) == IntText(units \div Pow10(k)) \o <<".">> \o PadText(units % Pow10(k), k)

\* float(text) of a match of \d+\.?\d*, without trailing zeros
RECURSIVE Canonical(_, _)
Canonical(n, k) ==
    IF k > 0 /\ n % 10 = 0 THEN Canonical(n \div 10, k - 1) ELSE [n |-> n, k |-> k]

DecimalOf(tok) ==
    LET dots == {i \in 1..Len(tok) : tok[i] = "."}
        dot == IF dots = {} THEN Len(tok) + 1 ELSE CHOOSE i \in dots : TRUE
        frac == SubSeq(tok, dot + 1, Len(tok))
    IN Canonical(DigitsToInt(SubSeq(tok, 1, dot - 1) \o frac), Len(frac))

\* f"{amount}" of a float: repr, at least one decimal
FormatFloat(dec) ==
    IF dec.k = 0 THEN IntText(dec.n) \o <<".", "0">> ELSE FormatFixed(dec.n, dec.k)

(***************************************************************************)
(* The two regular expressions of the normalizer, matched as re.search     *)
(* matches them: leftmost start, greedy number \d+\.?\d*.                  *)
(***************************************************************************)
\* last index of the maximal run of digits that starts at i (i - 1: none)
DigitRunEnd(t, i) ==
    CHOOSE j \in (i - 1)..Len(t) :
        /\ \A k \in i..j : IsDigit(t[k])
        /\ (j = Len(t) \/ ~IsDigit(t[j + 1]))

\* last index of the maximal run of [a-zA-Z\s] that starts at i
UnitRunEnd(t, i) ==
    CHOOSE j \in (i - 1)..Len(t) :
        /\ \A k \in i..j : IsAlpha(t[k]) \/ IsSpace(t[k])
        /\ (j = Len(t) \/ ~(IsAlpha(t[j + 1]) \/ IsSpace(t[j + 1])))

\* last index of the match of \d+\.?\d* at i, where t[i] is a digit
NumberEnd(t, i) ==
    LET a == DigitRunEnd(t, i)
        b == IF a < Len(t) /\ t[a + 1] = "." THEN a + 1 ELSE a
    IN DigitRunEnd(t, b + 1)

\* _parse_quantity_and_unit:
\*   re.search(r'(\d+\.?\d*)\s*([a-zA-Z\s]+?)(?:\s*,|$)', quantity_str.strip())
ParseQuantityAndUnit(quantity) ==
    IF ~IsStr(quantity) \/ Val(quantity) = <<>> THEN None
    ELSE
    LET s == Strip(Val(quantity))
        MatchAt(i) ==
            /\ IsDigit(s[i])
            /\ LET e == NumberEnd(s, i)
                   u == UnitRunEnd(s, e + 1)
               IN u >= e + 1 /\ (u = Len(s) \/ s[u + 1] = ",")
        starts == {i \in 1..Len(s) : MatchAt(i)}
    IN IF starts = {} THEN None
       ELSE LET i == CHOOSE x \in starts : \A y \in starts : x <= y
                e == NumberEnd(s, i)
                u == UnitRunEnd(s, e + 1)
            IN Tuple([amount |-> DecimalOf(SubSeq(s, i, e)),
                      unit |-> Lower(Strip(SubSeq(s, e + 1, u)))])

\* does \$(\d+\.?\d*)/(\d+\.?\d*)\s*([a-zA-Z\s]+) match at i, its first
\* number ending at e1
ExplicitTail(s, e1) ==
    /\ e1 + 1 < Len(s) /\ s[e1 + 1] = "/" /\ IsDigit(s[e1 + 2])
    /\ UnitRunEnd(s, NumberEnd(s, e1 + 2) + 1) >= NumberEnd(s, e1 + 2) + 1

ExplicitMatchAt(s, i) ==
    /\ s[i] = "$"
    /\ i < Len(s) /\ IsDigit(s[i + 1])
    /\ ExplicitTail(s, NumberEnd(s, i + 1))

\* (normalized_price, per_unit) of the three groups, None for a zero amount
ExplicitOf(price, per_amount, per_unit) ==
    IF per_amount.n > 0
    THEN Tuple([price |-> Reduced(price.n * Pow10(per_amount.k),
                                  per_amount.n * Pow10(price.k)),
                unit |-> per_unit])
    ELSE None

\* the groups of the match at i: numbers end at e1 and e2, the unit run at u
ExplicitGroups(s, i, e1, e2) ==
    ExplicitOf(DecimalOf(SubSeq(s, i + 1, e1)),
               DecimalOf(SubSeq(s, e1 + 2, e2)),
               Strip(SubSeq(s, e2 + 1, UnitRunEnd(s, e2 + 1))))

ExplicitAt(s, i, e1) == ExplicitGroups(s, i, e1, NumberEnd(s, e1 + 2))

ExplicitSearch(s, starts) ==
    IF starts = {} THEN None
    ELSE ExplicitAt(s, CHOOSE x \in starts : \A y \in starts : x <= y,
                    NumberEnd(s, (CHOOSE x \in starts : \A y \in starts : x <= y) + 1))

\* _extract_explicit_unit_price:
\*   re.search(r'\$(\d+\.?\d*)/(\d+\.?\d*)\s*([a-zA-Z\s]+)', quantity_str.lower())
ExtractExplicitUnitPrice(quantity) ==
    IF ~IsStr(quantity) \/ Val(quantity) = <<>> THEN None
    ELSE ExplicitSearch(Lower(Val(quantity)),
             {i \in 1..Len(Val(quantity)) : ExplicitMatchAt(Lower(Val(quantity)), i)})

(***************************************************************************)
(* UNIT_CONVERSIONS, in the order of the dict; a factor is num / den       *)
(***************************************************************************)
UNIT_CONVERSIONS == <<
    [key |-> <<"m", "l">>, num |-> 1, den |-> 1],
    [key |-> <<"l">>, num |-> 1000, den |-> 1],
    [key |-> <<"L">>, num |-> 1000, den |-> 1],
    [key |-> <<"o", "z">>, num |-> 59147, den |-> 2000],
    [key |-> <<"f", "l", " ", "o", "z">>, num |-> 59147, den |-> 2000],
    [key |-> <<"g">>, num |-> 1, den |-> 1],
    [key |-> <<"k", "g">>, num |-> 1000, den |-> 1],
    [key |-> <<"l", "b">>, num |-> 56699, den |-> 125],
    [key |-> <<"l", "b", "s">>, num |-> 56699, den |-> 125],
    [key |-> <<"e", "a">>, num |-> 1, den |-> 1],
    [key |-> <<"c", "o", "u", "n", "t">>, num |-> 1, den |-> 1],
    [key |-> <<"c", "t">>, num |-> 1, den |-> 1],
    [key |-> <<"p", "i", "e", "c", "e">>, num |-> 1, den |-> 1],
    [key |-> <<"r", "o", "l", "l">>, num |-> 1, den |-> 1],
    [key |-> <<"r", "o", "l", "l", "s">>, num |-> 1, den |-> 1] >>

\* index in UNIT_CONVERSIONS of the unit the code converts with; 0: none
ResolveUnit(unit_lower) ==
    LET n == Len(UNIT_CONVERSIONS)
        exact == {i \in 1..n : UNIT_CONVERSIONS[i].key = unit_lower}
        fuzzy == {i \in 1..n : \/ Contains(unit_lower, UNIT_CONVERSIONS[i].key)
                               \/ Contains(UNIT_CONVERSIONS[i].key, unit_lower)}
    IN IF exact # {} THEN CHOOSE i \in exact : TRUE
       ELSE IF fuzzy # {} THEN CHOOSE i \in fuzzy : \A j \in fuzzy : i <= j
       ELSE 0

\* "if not total_price": None, 0 and "" are falsy
Falsy(v) ==
    \/ v = None
    \/ (v[1] \in {"num", "int"} /\ Val(v) = 0)
    \/ (v[1] = "bool" /\ ~Val(v))
    \/ (v[1] \in {"str", "list", "object"} /\ Val(v) = <<>>)

\* _calculate_unit_price; the price is in cents
CalculateUnitPrice(total_price, quantity_tuple) ==
    IF Falsy(total_price) \/ quantity_tuple = None THEN None
    ELSE
    LET amount == Val(quantity_tuple).amount
        unit == Val(quantity_tuple).unit
        unit_lower == Lower(unit)
        ui == ResolveUnit(unit_lower)
        cents == Val(total_price)
        \* total_price / amount, in 0.0001
        raw == RoundHalfEven(100 * cents * Pow10(amount.k), amount.n)
    IN IF amount.n <= 0 THEN None
       ELSE IF IsStr(total_price) THEN Raise("TypeError")
       ELSE IF ui = 0
       THEN Dict([amount |-> E4(raw),
                  per |-> Str(<<"1">> \o unit),
                  base_unit |-> Str(unit_lower)])
       ELSE LET conv == UNIT_CONVERSIONS[ui] IN
            Dict([amount |-> E4(raw),
                  per |-> Str(FormatFloat(amount) \o unit),
                  normalized_amount |->
                      E4(RoundHalfEven(100 * cents * Pow10(amount.k) * conv.den,
                                       amount.n * conv.num)),
                  normalized_per |-> Str(<<"1">> \o conv.key),
                  base_unit |-> Str(conv.key)])

(***************************************************************************)
(* PRODUCT_TYPE_KEYWORDS, in the order of the dict                         *)
(***************************************************************************)
PRODUCT_TYPE_KEYWORDS == <<
    [keywords |-> {<<"m", "i", "l", "k">>, <<"j", "u", "i", "c", "e">>, <<"b", "e", "v", "e", "r", "a", "g", "e">>, <<"d", "r", "i", "n", "k">>, <<"l", "i", "q", "u", "i", "d">>, <<"w", "a", "t", "e", "r">>,
                   <<"c", "o", "f", "f", "e", "e">>, <<"t", "e", "a">>, <<"s", "o", "d", "a">>},
     ptype |-> "volume", display_unit |-> <<"1", "0", "0", "m", "l">>],
    [keywords |-> {<<"m", "e", "a", "t">>, <<"t", "u", "r", "k", "e", "y">>, <<"c", "h", "i", "c", "k", "e", "n">>, <<"b", "e", "e", "f">>, <<"p", "o", "r", "k">>, <<"d", "e", "l", "i">>, <<"h", "a", "m">>,
                   <<"b", "a", "c", "o", "n">>, <<"s", "a", "u", "s", "a", "g", "e">>, <<"f", "i", "s", "h">>},
     ptype |-> "weight", display_unit |-> <<"1", "0", "0", "g">>],
    [keywords |-> {<<"a", "p", "p", "l", "e">>, <<"o", "r", "a", "n", "g", "e">>, <<"b", "a", "n", "a", "n", "a">>, <<"f", "r", "u", "i", "t">>, <<"p", "r", "o", "d", "u", "c", "e">>, <<"v", "e", "g", "e", "t", "a", "b", "l", "e">>},
     ptype |-> "weight", display_unit |-> <<"l", "b">>],
    [keywords |-> {<<"b", "r", "e", "a", "d">>, <<"b", "a", "k", "e", "d">>, <<"c", "a", "k", "e">>, <<"c", "o", "o", "k", "i", "e">>, <<"d", "o", "n", "u", "t">>},
     ptype |-> "weight", display_unit |-> <<"1", "0", "0", "g">>],
    [keywords |-> {<<"e", "g", "g">>, <<"e", "g", "g", "s">>},
     ptype |-> "count", display_unit |-> <<"1", "e", "a">>],
    [keywords |-> {<<"p", "a", "p", "e", "r">>, <<"t", "i", "s", "s", "u", "e">>, <<"t", "o", "i", "l", "e", "t">>, <<"t", "o", "w", "e", "l">>, <<"n", "a", "p", "k", "i", "n">>},
     ptype |-> "count", display_unit |-> <<"1", "r", "o", "l", "l">>],
    [keywords |-> {<<"c", "e", "r", "e", "a", "l">>, <<"p", "a", "s", "t", "a">>, <<"r", "i", "c", "e">>, <<"g", "r", "a", "i", "n">>, <<"f", "l", "o", "u", "r">>},
     ptype |-> "weight", display_unit |-> <<"1", "0", "0", "g">>] >>

\* _detect_product_type: the type of the first group one of whose keywords
\* occurs in the lower-cased name
DetectProductType(product_name) ==
    LET name_lower == Lower(product_name)
        hits == {i \in 1..Len(PRODUCT_TYPE_KEYWORDS) :
                    \E kw \in PRODUCT_TYPE_KEYWORDS[i].keywords :
                        Contains(name_lower, kw)}
    IN IF hits = {} THEN "unknown"
       ELSE PRODUCT_TYPE_KEYWORDS[CHOOSE i \in hits : \A j \in hits : i <= j].ptype

GetBestDisplayUnitDefault(product_type) == <<"1", "u", "n", "i", "t">>

\* _get_best_display_unit: the display unit of the first group of that type
GetBestDisplayUnit(product_type) ==
    LET hits == {i \in 1..Len(PRODUCT_TYPE_KEYWORDS) :
                    PRODUCT_TYPE_KEYWORDS[i].ptype = product_type}
    IN IF hits = {} THEN <<"1", "u", "n", "i", "t">>
       ELSE PRODUCT_TYPE_KEYWORDS[CHOOSE i \in hits : \A j \in hits : i <= j].display_unit

\* the unit_price_display of a computed unit price
DisplayOf(calc, display_unit) ==
    LET Money(cents) == <<"$">> \o FormatFixed(cents, 2) IN
    IF "normalized_amount" \in DOMAIN calc
    THEN LET base == Val(calc.normalized_amount) IN
         IF Contains(display_unit, <<"1", "0", "0", "m", "l">>) \/ Contains(display_unit, <<"1", "0", "0", "g">>)
         THEN Money(base) \o <<"/">> \o display_unit
         ELSE IF Contains(display_unit, <<"l", "b">>)
         THEN IF calc.base_unit = Str(<<"g">>)
              THEN Money(RoundHalfEven(base * 56699, 12500)) \o <<"/">> \o display_unit
              ELSE Money(RoundHalfEven(base, 100)) \o <<"/">> \o display_unit
         ELSE IF Contains(display_unit, <<"1", "e", "a">>) \/ Contains(display_unit, <<"1", "r", "o", "l", "l">>)
         THEN Money(RoundHalfEven(base, 100)) \o <<"/">> \o display_unit
         ELSE <<"$">> \o FormatFixed(base, 4) \o <<"/", "u", "n", "i", "t">>
    ELSE Money(RoundHalfEven(Val(calc.amount), 100)) \o <<"/">> \o Val(calc.per)

UpdatedAppending(item, extra) ==
    [k \in DOMAIN item \cup DOMAIN extra |->
        IF k \in DOMAIN extra
        THEN (IF k = "unit_prices" /\ k \in DOMAIN item
              THEN item[k] \o extra[k] ELSE extra[k])
        ELSE item[k]]

\* dict(item) with the keys of extra set or replaced
Updated(item, extra) ==
    [k \in DOMAIN item \cup DOMAIN extra |->
        IF k \in DOMAIN extra THEN extra[k] ELSE item[k]]

EnrichExplicitNormalized(item, explicit_price, explicit_unit) ==
    Dict(Updated(item,
        [unit_price_display |->
             Str(<<"$">>
                 \o FormatFixed(RoundHalfEven(100 * explicit_price[2], explicit_price[3]), 2)
                 \o <<"/">> \o explicit_unit),
         unit_prices |-> <<[amount |-> explicit_price, per |-> Str(explicit_unit),
                            normalized_amount |->
                                E4(RoundHalfEven(10000 * explicit_price[2], explicit_price[3]))]>>]))

\* the branch "if explicit:" of _enrich_unit_prices
EnrichExplicit(item, explicit_price, explicit_unit) ==
    Dict(Updated(item,
        [unit_price_display |->
             Str(<<"$">>
                 \o FormatFixed(RoundHalfEven(100 * explicit_price[2], explicit_price[3]), 2)
                 \o <<"/">> \o explicit_unit),
         unit_prices |-> <<[amount |-> explicit_price, per |-> Str(explicit_unit)]>>]))

\* the branch "if calc:" of _enrich_unit_prices; a name that is not a str
\* has no lower()
EnrichComputed(item, calc, name) ==
    IF IsRaise(calc) THEN calc
    ELSE IF calc = None THEN Dict(item)
    ELSE IF ~IsStr(name) THEN Raise("AttributeError")
    ELSE Dict(Updated(item,
            [unit_prices |-> <<Val(calc)>>,
             unit_price_display |->
                 Str(DisplayOf(Val(calc),
                               GetBestDisplayUnit(DetectProductType(Val(name)))))]))

\* _enrich_unit_prices after the explicit unit price has been looked for
EnrichParsed(item, price, explicit, qty_tuple) ==
    IF explicit # None
    THEN EnrichExplicit(item, Val(explicit).price, Val(explicit).unit)
    ELSE IF qty_tuple # None /\ price # None
    THEN EnrichComputed(item, CalculateUnitPrice(price, qty_tuple),
                        GetOr(item, "name", Str(<<>>)))
    ELSE Dict(item)

\* _enrich_unit_prices: the enriched copy, or the exception it raises
EnrichUnitPrices(item) ==
    EnrichParsed(item, Get(item, "price"),
                 ExtractExplicitUnitPrice(Get(item, "quantity")),
                 ParseQuantityAndUnit(Get(item, "quantity")))

\* a record as a pipeline builds it
Scraped(name, price, quantity, unit_price, available) ==
    [name |-> name, price |-> price, unit_price |-> unit_price,
     quantity |-> quantity, available |-> available]

ArgumentAliased(item, outcome) == IF IsDict(outcome) THEN Val(outcome) ELSE item

\* the caller's dict after _enrich_unit_prices(item): item_copy = item.copy()
\* takes every write, the argument keeps its keys and values
ArgumentAfterEnrich(item, outcome) == item

(***************************************************************************)
(* _enrich_unit_prices on one extracted record, then on its own result     *)
(***************************************************************************)
EnrichNames == {
    None,
    Str(<<"O", "r", "a", "n", "g", "e", " ", "J", "u", "i", "c", "e">>),
    Str(<<"C", "h", "i", "c", "k", "e", "n", " ", "B", "r", "e", "a", "s", "t">>),
    Str(<<"L", "a", "r", "g", "e", " ", "E", "g", "g", "s">>),
    Str(<<"G", "a", "l", "a", " ", "A", "p", "p", "l", "e", "s">>),
    Str(<<"P", "a", "p", "e", "r", " ", "T", "o", "w", "e", "l", "s">>),
    Str(<<"W", "i", "d", "g", "e", "t">>) }

EnrichPrices == {None, Num(398), Num(129), Str(<<"2", "/", "$", "7">>)}

EnrichQuantities == {
    None,
    Str(<<"2", " ", "L">>),
    Str(<<"2", "0", "0", " ", "m", "l", ",", " ", "$", "0", ".", "8", "6", "/", "1", "0", "0", "m", "l">>),
    Str(<<"$", "0", ".", "8", "6", "/", "1", "0", "0", "m", "l">>),
    Str(<<"1", "2", " ", "C", "o", "u", "n", "t">>),
    Str(<<"5", "0", "0", " ", "g">>),
    Str(<<"1", "2", " ", "o", "z">>),
    Str(<<"3", " ", "w", "i", "d", "g", "e", "t", "s">>),
    Str(<<"a", "b", "c">>) }

EnrichUnitPriceTexts == {None, Str(<<"$", "0", ".", "8", "6", "/", "1", "0", "0", "m", "l">>)}

EnrichInit ==
    /\ extracted \in {Scraped(n, pr, q, u, TRUE) :
                         n \in EnrichNames, pr \in EnrichPrices,
                         q \in EnrichQuantities, u \in EnrichUnitPriceTexts}
    /\ enriched = Pending
    /\ reenriched = Pending

\* _enrich_unit_prices(extracted)
Enrich ==
    /\ enriched = Pending
    /\ enriched' = Returned(EnrichUnitPrices(extracted))
    /\ extracted' = ArgumentAfterEnrich(extracted, EnrichUnitPrices(extracted))
    /\ UNCHANGED reenriched
    /\ UNCHANGED notEnrichVars

\* _enrich_unit_prices on the record the first call returned
EnrichAgain ==
    /\ enriched # Pending
    /\ IsDict(Val(enriched))
    /\ reenriched = Pending
    /\ reenriched' = Returned(EnrichUnitPrices(Val(Val(enriched))))
    /\ UNCHANGED <<extracted, enriched>>
    /\ UNCHANGED notEnrichVars

EnrichNext ==
    \/ Enrich
    \/ EnrichAgain

(***************************************************************************)
(* The relevance filter, integrate_scrapers.py:202-234                     *)
(***************************************************************************)
NEGATIVE_TERMS == {
    <<"t", "o", "y">>,
    <<"e", "a", "s", "t", "e", "r">>,
    <<"d", "e", "c", "o", "r">>,
    <<"c", "o", "s", "t", "u", "m", "e">>,
    <<"g", "i", "f", "t", " ", "c", "a", "r", "d">>,
    <<"g", "i", "f", "t", "c", "a", "r", "d">>,
    <<"d", "i", "g", "i", "t", "a", "l">>,
    <<"e", "b", "o", "o", "k">>,
    <<"o", "r", "n", "a", "m", "e", "n", "t">> }

\* _tokenize
Tokenize(text) == SplitSet(ReplacePercent(Lower(text)))

\* item.get(key) or ""
TextOrEmpty(item, key) ==
    LET v == Get(item, key) IN IF IsStr(v) THEN Val(v) ELSE <<>>

\* f"{name} {quantity} {unit_price}".lower()
Combined(item) ==
    Lower(TextOrEmpty(item, "name") \o <<" ">> \o TextOrEmpty(item, "quantity")
          \o <<" ">> \o TextOrEmpty(item, "unit_price"))

NoNegativeGate(combined) == FALSE

\* any(neg in combined for neg in NEGATIVE_TERMS)
HasNegativeTerm(combined) == \E neg \in NEGATIVE_TERMS : Contains(combined, neg)

Maximum(a, b) == IF a >= b THEN a ELSE b

MinRequiredHalf(n) == n \div 2

MinRequiredLower(n) == IF n \div 2 < 2 THEN n \div 2 ELSE 2

\* min_required = max(2, len(q_tokens) // 2)
MinRequired(n) == Maximum(2, n \div 2)

\* sum(1 for token in q_tokens if token in combined)
MatchCount(q_tokens, combined) ==
    Cardinality({token \in q_tokens : Contains(combined, token)})

\* _is_relevant
IsRelevant(q, item) ==
    LET q_tokens == Tokenize(q)
        combined == Combined(item)
    IN IF HasNegativeTerm(combined) THEN FALSE
       ELSE MatchCount(q_tokens, combined) >= MinRequired(Cardinality(q_tokens))

(***************************************************************************)
(* list.sort(key=...): a stable sort of <<key, value>> pairs, the keys     *)
(* being pairs <<rank, value>> compared as Python compares tuples: by the  *)
(* first component that differs.  Equal values are never ordered, so two   *)
(* None compare; numbers are compared by value, str by code point.  A str  *)
(* Values of two types have no order: list.sort raises TypeError.         *)
(***************************************************************************)
CodePoints == <<" ", "$", "%", ",", ".", "/">> \o Digits \o Uppers \o Lowers

Ord(c) == CHOOSE i \in 1..Len(CodePoints) : CodePoints[i] = c

\* a < b on str
TextLess(a, b) ==
    \E i \in 1..(Len(a) + 1) :
        /\ i <= Len(b)
        /\ \A k \in 1..(i - 1) : a[k] = b[k]
        /\ (i = Len(a) + 1 \/ Ord(a[i]) < Ord(b[i]))

KeyLess(a, b) ==
    IF a[1] # b[1] THEN a[1] < b[1]
    ELSE IF a[2] = b[2] THEN FALSE
    ELSE IF IsStr(a[2]) THEN TextLess(Val(a[2]), Val(b[2]))
    ELSE Val(a[2]) < Val(b[2])

Unorderable(a, b) == a[1] = b[1] /\ a[2][1] # b[2][1]

\* x goes after every element whose key is not greater than its own
RECURSIVE InsertByKey(_, _)
InsertByKey(sorted, x) ==
    IF sorted = <<>> THEN <<x>>
    ELSE IF KeyLess(x[1], Head(sorted)[1]) THEN <<x>> \o sorted
    ELSE <<Head(sorted)>> \o InsertByKey(Tail(sorted), x)

RECURSIVE SortByKey(_)
SortByKey(pairs) ==
    IF pairs = <<>> THEN <<>>
    ELSE InsertByKey(SortByKey(SubSeq(pairs, 1, Len(pairs) - 1)), pairs[Len(pairs)])

(***************************************************************************)
(* _filter_and_rank, integrate_scrapers.py:237-243                         *)
(***************************************************************************)
List(l) == <<"list", l>>
IsList(v) == v[1] = "list"

DefaultLimit == 10

MinimumIgnoringLimit(a, b) == b

Minimum(a, b) == IF a <= b THEN a ELSE b

\* [itm for itm in items if _is_relevant(query, itm)]
Filtered(q, its) == SelectSeq(its, LAMBDA itm : IsRelevant(q, itm))

\* lambda x: (x.get("price") is None, x.get("price", 0))
RankKey(x) == <<IF Get(x, "price") = None THEN 1 ELSE 0, GetOr(x, "price", Num(0))>>

\* the first exception of a list of outcomes, or the list of their values
FirstRaiseOr(outcomes) ==
    LET bad == {k \in 1..Len(outcomes) : IsRaise(outcomes[k])} IN
    IF bad # {} THEN outcomes[CHOOSE k \in bad : \A j \in bad : k <= j]
    ELSE List([k \in 1..Len(outcomes) |-> Val(outcomes[k])])

\* filtered after filtered.sort(key=...), as <<key, record>> pairs
SortedSurvivors(q, its) ==
    SortByKey([k \in 1..Len(Filtered(q, its)) |->
                  <<RankKey(Filtered(q, its)[k]), Filtered(q, its)[k]>>])

\* filtered.sort meets two keys it cannot order
SortRaises(q, its) ==
    \E i, j \in 1..Len(Filtered(q, its)) :
        Unorderable(RankKey(Filtered(q, its)[i]), RankKey(Filtered(q, its)[j]))

\* filtered[:limit]
Top(sorted, lim) == SubSeq(sorted, 1, Minimum(lim, Len(sorted)))

EnrichEach(top) == FirstRaiseOr([k \in 1..Len(top) |-> EnrichUnitPrices(top[k][2])])

\* the list _filter_and_rank returns, or the exception it raises
FilterAndRank(q, its, lim) ==
    IF SortRaises(q, its) THEN Raise("TypeError")
    ELSE EnrichEach(Top(SortedSurvivors(q, its), lim))

\* is the record one of those the call passes to _enrich_unit_prices
PassedToEnrich(r, top) == \E j \in 1..Len(top) : top[j][2] = r

\* the caller's list after the call: the comprehension builds a new list,
\* which is the one sorted; each record enriched is left as
\* _enrich_unit_prices leaves its argument
ItemsAfterRank(q, its, lim) ==
    IF SortRaises(q, its) THEN its
    ELSE [k \in 1..Len(its) |->
             IF PassedToEnrich(its[k], Top(SortedSurvivors(q, its), lim))
             THEN ArgumentAfterEnrich(its[k], EnrichUnitPrices(its[k]))
             ELSE its[k]]

(***************************************************************************)
(* One call of _filter_and_rank on a query and a list of scraped records   *)
(***************************************************************************)
MaxRecords == 2

Limits == {1, DefaultLimit}

Queries == {
    <<"m", "i", "l", "k">>,
    <<"a", "p", "p", "l", "e", " ", "j", "u", "i", "c", "e">>,
    <<"C", "h", "o", "c", "o", "l", "a", "t", "e", " ", "E", "g", "g", "s">>,
    <<"2", "%", " ", "M", "i", "l", "k">>,
    <<"p", "u", "r", "e", " ", "a", "p", "p", "l", "e", " ", "j", "u", "i", "c", "e", " ", "n", "o", "t", " ", "f", "r", "o", "m", " ", "c", "o", "n", "c", "e", "n", "t", "r", "a", "t", "e">> }

ScrapedPool == {
    Scraped(Str(<<"A", "p", "p", "l", "e", " ", "J", "u", "i", "c", "e">>), Num(398), Str(<<"2", " ", "L">>), None, TRUE),
    Scraped(Str(<<"P", "i", "n", "e", "a", "p", "p", "l", "e", " ", "J", "u", "i", "c", "e">>), Num(250), Str(<<"1", " ", "L">>), None, TRUE),
    Scraped(Str(<<"A", "p", "p", "l", "e", " ", "S", "a", "u", "c", "e">>), Num(300), None, None, TRUE),
    Scraped(Str(<<"P", "u", "r", "e", " ", "A", "p", "p", "l", "e", " ", "J", "u", "i", "c", "e", " ", "F", "r", "o", "m", " ", "C", "o", "n", "c", "e", "n", "t", "r", "a", "t", "e">>), Num(129),
            Str(<<"2", "0", "0", " ", "m", "l", ",", " ", "$", "0", ".", "8", "6", "/", "1", "0", "0", "m", "l">>), Str(<<"$", "0", ".", "8", "6", "/", "1", "0", "0", "m", "l">>), FALSE),
    Scraped(Str(<<"A", "p", "p", "l", "e", " ", "J", "u", "i", "c", "e">>), Str(<<"2", "/", "$", "7">>), Str(<<"1", " ", "L">>), None, TRUE),
    Scraped(Str(<<"E", "a", "s", "t", "e", "r", " ", "C", "h", "o", "c", "o", "l", "a", "t", "e", " ", "E", "g", "g", "s">>), Num(500), Str(<<"1", "2", " ", "e", "a">>), None, TRUE),
    Scraped(Str(<<"C", "h", "o", "c", "o", "l", "a", "t", "e", " ", "E", "g", "g", "s", " ", "G", "i", "f", "t">>), Num(1000), Str(<<"C", "a", "r", "d", ",", " ", "1", " ", "e", "a">>), None, TRUE),
    Scraped(Str(<<"C", "h", "o", "c", "o", "l", "a", "t", "e", " ", "E", "g", "g", "s">>), None, Str(<<"6", " ", "e", "a">>), None, TRUE),
    Scraped(Str(<<"C", "h", "o", "c", "o", "l", "a", "t", "e", " ", "E", "g", "g", "s">>), Num(450), Str(<<"1", "2", " ", "e", "a">>), None, TRUE),
    Scraped(Str(<<"M", "i", "l", "k", " ", "2", "%">>), Num(700), Str(<<"4", " ", "L">>), None, TRUE),
    Scraped(Str(<<"M", "i", "l", "k">>), Num(200), Str(<<"1", " ", "L">>), None, TRUE) }

FilterInit ==
    /\ query \in Queries
    /\ limit \in Limits
    /\ items = <<>>
    /\ filtered = <<>>
    /\ ranked = Pending

\* the caller's list grows by one scraped record
AppendRecord ==
    /\ ranked = Pending
    /\ Len(items) < MaxRecords
    /\ \E r \in ScrapedPool : items' = Append(items, r)
    /\ UNCHANGED <<query, limit, filtered, ranked>>
    /\ UNCHANGED notFilterVars

\* _filter_and_rank(query, items, limit)
FilterRank ==
    /\ ranked = Pending
    /\ filtered' = Filtered(query, items)
    /\ ranked' = Returned(FilterAndRank(query, items, limit))
    /\ items' = ItemsAfterRank(query, items, limit)
    /\ UNCHANGED <<query, limit>>
    /\ UNCHANGED notFilterVars

FilterNext ==
    \/ AppendRecord
    \/ FilterRank

(***************************************************************************)
(* _find_cheapest_option, integrate_scrapers.py:246-297                    *)
(***************************************************************************)
\* iteration order of stores_dict: the order search_all_products inserts in
StoreOrder == <<"walmart", "superstore">>

PricedAlways(item) == TRUE

\* "if item.get("price") is not None"
Priced(item) == Get(item, "price") # None

\* the entries {"store", "item"} of one store, in list order
StoreEntries(store, its) ==
    LET Entry(k) == [store |-> store, item |-> its[k]]
        RECURSIVE Collect(_)
        Collect(k) ==
            IF k > Len(its) THEN <<>>
            ELSE (IF Priced(its[k]) THEN <<Entry(k)>> ELSE <<>>) \o Collect(k + 1)
    IN Collect(1)

AllItems(sd) ==
    LET RECURSIVE Over(_)
        Over(n) == IF n > Len(StoreOrder) THEN <<>>
                   ELSE StoreEntries(StoreOrder[n], sd[StoreOrder[n]]) \o Over(n + 1)
    IN Over(1)

\* unit_prices[0].get("normalized_amount") of a non-empty unit_prices list
NormalizedOf(item) ==
    LET unit_prices == GetOr(item, "unit_prices", <<>>) IN
    IF Len(unit_prices) > 0 THEN Get(unit_prices[1], "normalized_amount") ELSE None

AvailabilityIgnored(item) == 0

\* "not item.get("available", False)": 0 (False) sorts before 1 (True)
NotAvailable(item) == IF GetOr(item, "available", FALSE) THEN 0 ELSE 1

UnitKeyByPrice(entry) == <<NotAvailable(entry.item), Get(entry.item, "price")>>

\* key of the sort of items_with_normalized
UnitKey(entry) == <<NotAvailable(entry.item), NormalizedOf(entry.item)>>

\* key of the sort of all_items; every entry has a price key
PriceKey(entry) == <<NotAvailable(entry.item), Get(entry.item, "price")>>

FindCheapestOption(sd) ==
    LET all_items == AllItems(sd)
        HasNormalized(entry) == NormalizedOf(entry.item) # None
        items_with_normalized == SelectSeq(all_items, HasNormalized)
        by_unit == SortByKey([k \in 1..Len(items_with_normalized) |->
                       <<UnitKey(items_with_normalized[k]), items_with_normalized[k]>>])
        by_price == SortByKey([k \in 1..Len(all_items) |->
                       <<PriceKey(all_items[k]), all_items[k]>>])
    IN
    IF all_items = <<>> THEN None
    ELSE IF items_with_normalized # <<>>
    THEN Dict([store |-> by_unit[1][2].store, item |-> by_unit[1][2].item,
               comparison_type |-> "unit_price"])
    ELSE Dict([store |-> by_price[1][2].store, item |-> by_price[1][2].item,
               comparison_type |-> "total_price"])

\* ---- the inputs of the selector
\* records in all the lists of one stores_dict
MaxItems == 3

SelPrices == {300, 350}
SelNormalized == {2, 5}

\* unit_prices as _enrich_unit_prices leaves it: absent, the explicit form
\* (no normalized_amount) or the computed form
SelItems ==
    LET base == [price : {None} \cup {Num(p) : p \in SelPrices}, available : BOOLEAN]
        explicit == <<[amount |-> Ratio(43, 5000), per |-> Str(<<"m", "l">>)]>>
        computed(n) == <<[amount |-> E4(n), per |-> Str(<<"1", ".", "0", "c", "o", "u", "n", "t">>),
                          normalized_amount |-> E4(n),
                          normalized_per |-> Str(<<"1", "c", "o", "u", "n", "t">>),
                          base_unit |-> Str(<<"c", "o", "u", "n", "t">>)]>>
        With(b, u) == [price |-> b.price, available |-> b.available, unit_prices |-> u]
    IN base
       \cup {With(b, explicit) : b \in base}
       \cup {With(b, computed(n)) : b \in {x \in base : x.price # None},
                                    n \in SelNormalized}

SelInit ==
    /\ stores_dict = [walmart |-> <<>>, superstore |-> <<>>]
    /\ best = Pending

\* one more record in a store's ranked list, before the selector is called
AddItem ==
    /\ best = Pending
    /\ Len(stores_dict.walmart) + Len(stores_dict.superstore) < MaxItems
    /\ \E store \in {"walmart", "superstore"}, item \in SelItems :
         stores_dict' = [stores_dict EXCEPT ![store] = Append(@, item)]
    /\ UNCHANGED best
    /\ UNCHANGED notSelVars

\* best_deal = _find_cheapest_option(product, stores)
FindCheapest ==
    /\ best = Pending
    /\ best' = Returned(FindCheapestOption(stores_dict))
    /\ UNCHANGED stores_dict
    /\ UNCHANGED notSelVars

SelNext ==
    \/ AddItem
    \/ FindCheapest

(***************************************************************************)
(* search_all_products, integrate_scrapers.py:300-349, followed by the     *)
(* comparison loop of print_comparison, integrate_scrapers.py:360-392.     *)
(* A scrape call is taken by its outcome: the list it returns or the       *)
(* exception that escapes it.                                              *)
(***************************************************************************)
PRODUCTS_TO_SEARCH == <<
    <<"O", "r", "a", "n", "g", "e", " ", "J", "u", "i", "c", "e">>,
    <<"T", "o", "i", "l", "e", "t", " ", "P", "a", "p", "e", "r">>,
    <<"L", "e", "m", "o", "n", "s">> >>

\* the configured product lists
ProductLists == {PRODUCTS_TO_SEARCH, <<<<"m", "i", "l", "k">>>>}

\* what a Superstore search for the product can end with
SuperstoreOutcomes(product) ==
    {Raise("Error"), List(<<>>)} \cup
    (IF product = <<"O", "r", "a", "n", "g", "e", " ", "J", "u", "i", "c", "e">>
     THEN {List(<<Scraped(Str(<<"O", "r", "a", "n", "g", "e", " ", "J", "u", "i", "c", "e">>), Num(398), Str(<<"2", " ", "L">>), None, TRUE)>>),
           \* a quantity text that declares its unit price
           List(<<Scraped(Str(<<"O", "r", "a", "n", "g", "e", " ", "J", "u", "i", "c", "e">>), Num(200), Str(<<"2", " ", "L", ",", " ", "$", "0", ".", "1", "0", "/", "1", "0", "0", "m", "l">>), None, TRUE)>>)}
     ELSE IF product = <<"T", "o", "i", "l", "e", "t", " ", "P", "a", "p", "e", "r">>
     THEN {List(<<Scraped(Str(<<"T", "o", "i", "l", "e", "t", " ", "P", "a", "p", "e", "r">>), Num(899), Str(<<"1", "2", " ", "r", "o", "l", "l", "s">>), None, TRUE)>>)}
     ELSE IF product = <<"L", "e", "m", "o", "n", "s">>
     THEN {List(<<Scraped(Str(<<"L", "e", "m", "o", "n", "s">>), Num(99), Str(<<"1", " ", "e", "a">>), None, TRUE)>>)}
     ELSE {List(<<Scraped(Str(<<"M", "i", "l", "k">>), Num(200), Str(<<"1", " ", "L">>), None, TRUE)>>)})

\* what a Walmart search for the product can end with; Walmart's price can
\* be a str
WalmartOutcomes(product) ==
    {Raise("Error"), List(<<>>)} \cup
    (IF product = <<"O", "r", "a", "n", "g", "e", " ", "J", "u", "i", "c", "e">>
     THEN {List(<<Scraped(Str(<<"O", "r", "a", "n", "g", "e", " ", "J", "u", "i", "c", "e", " ", "P", "u", "l", "p", " ", "F", "r", "e", "e">>), Num(447), Str(<<"1", ".", "5", "4", " ", "L">>),
                          None, TRUE)>>)}
     ELSE IF product = <<"T", "o", "i", "l", "e", "t", " ", "P", "a", "p", "e", "r">>
     THEN {List(<<Scraped(Str(<<"T", "o", "i", "l", "e", "t", " ", "P", "a", "p", "e", "r">>), Str(<<"2", "/", "$", "1", "7">>), Str(<<"1", "2", " ", "r", "o", "l", "l", "s">>),
                          None, TRUE)>>)}
     ELSE IF product = <<"L", "e", "m", "o", "n", "s">>
     THEN {List(<<Scraped(Str(<<"L", "e", "m", "o", "n">>), Num(79), Str(<<"1", " ", "e", "a">>), None, FALSE)>>)}
     ELSE {List(<<Scraped(Str(<<"M", "i", "l", "k">>), Num(700), Str(<<"4", " ", "L">>), None, TRUE)>>)})

\* results[product] = {"walmart": [], "superstore": []}
FreshEntry == [walmart |-> <<>>, superstore |-> <<>>]

\* d[key] = value on a dict
SetKey(d, key, value) ==
    [k \in DOMAIN d \cup {key} |-> IF k = key THEN value ELSE d[k]]

\* the body of one try block: the scrape, then _filter_and_rank on its list
TryBlock(product, outcome) ==
    IF IsRaise(outcome) THEN outcome
    ELSE FilterAndRank(product, Val(outcome), DefaultLimit)

StoreOutcomeResetAll(stores, store, outcome) ==
    IF IsRaise(outcome) THEN FreshEntry
    ELSE [stores EXCEPT ![store] = Val(outcome)]

\* the assignment at the end of the try block, or the one of its handler
StoreOutcome(stores, store, outcome) ==
    IF IsRaise(outcome) THEN [stores EXCEPT ![store] = <<>>]
    ELSE [stores EXCEPT ![store] = Val(outcome)]

SearchInit ==
    /\ products \in ProductLists
    /\ idx = 1
    /\ phase = "begin"
    /\ scraped = <<>>
    /\ results = <<>>
    /\ deals = <<>>

\* top of the loop body: the entry of the product is created
BeginProduct ==
    /\ phase = "begin"
    /\ results' = SetKey(results, products[idx], FreshEntry)
    /\ scraped' = Append(scraped, [superstore |-> Pending, walmart |-> Pending])
    /\ phase' = "superstore"
    /\ UNCHANGED <<products, idx, deals>>
    /\ UNCHANGED notSearchVars

\* the Superstore try / except
SearchSuperstore ==
    /\ phase = "superstore"
    /\ \E outcome \in SuperstoreOutcomes(products[idx]) :
        /\ scraped' = [scraped EXCEPT ![idx].superstore = outcome]
        /\ results' = [results EXCEPT ![products[idx]] =
               StoreOutcome(@, "superstore", TryBlock(products[idx], outcome))]
    /\ phase' = "walmart"
    /\ UNCHANGED <<products, idx, deals>>
    /\ UNCHANGED notSearchVars

\* the Walmart try / except, the sleep, and the step of the loop
SearchWalmart ==
    /\ phase = "walmart"
    /\ \E outcome \in WalmartOutcomes(products[idx]) :
        /\ scraped' = [scraped EXCEPT ![idx].walmart = outcome]
        /\ results' = [results EXCEPT ![products[idx]] =
               StoreOutcome(@, "walmart", TryBlock(products[idx], outcome))]
    /\ IF idx < Len(products)
       THEN idx' = idx + 1 /\ phase' = "begin"
       ELSE idx' = 1 /\ phase' = "compare"
    /\ UNCHANGED <<products, deals>>
    /\ UNCHANGED notSearchVars

\* one iteration of the loop of print_comparison: the best deal of a product
Compare ==
    /\ phase = "compare"
    /\ deals' = Append(deals, FindCheapestOption(results[products[idx]]))
    /\ IF idx < Len(products)
       THEN idx' = idx + 1 /\ phase' = "compare"
       ELSE idx' = idx /\ phase' = "done"
    /\ UNCHANGED <<products, scraped, results>>
    /\ UNCHANGED notSearchVars

SearchNext ==
    \/ BeginProduct
    \/ SearchSuperstore
    \/ SearchWalmart
    \/ Compare

(***************************************************************************)
(* Documents.  A parsed document is None, Bool, Int, Num (a float, in      *)
(* cents), Str, List or Obj.  Obj is a dict in insertion order: a sequence *)
(* of <<key, value>> with distinct keys.                                   *)
(***************************************************************************)
PyInt(n) == <<"int", n>>
Bool(b) == <<"bool", b>>
Obj(pairs) == <<"object", pairs>>
IsObj(v) == v[1] = "object"
IsInt(v) == v[1] = "int"

\* key in node
HasKey(node, key) == \E i \in 1..Len(Val(node)) : Val(node)[i][1] = key

\* node.get(key)
ItemGet(node, key) ==
    IF HasKey(node, key)
    THEN Val(node)[CHOOSE i \in 1..Len(Val(node)) : Val(node)[i][1] = key][2]
    ELSE None

\* node.get(key, default)
ItemGetOr(node, key, default) ==
    IF HasKey(node, key) THEN ItemGet(node, key) ELSE default

\* list(node.values()) and list(node.keys())
Values(node) == [i \in 1..Len(Val(node)) |-> Val(node)[i][2]]

\* node[key] = value on a node that has no such key
With(node, key, value) == Obj(Append(Val(node), <<key, value>>))

\* a or b
OrElse(a, b) == IF Falsy(a) THEN b ELSE a

\* str(v) of a str, an int or a bool
PyStr(v) ==
    IF IsStr(v) THEN Val(v)
    ELSE IF IsInt(v) THEN IntText(Val(v))
    ELSE IF Val(v) THEN <<"T", "r", "u", "e">> ELSE <<"F", "a", "l", "s", "e">>

(***************************************************************************)
(* _collect_products of superstore.py and sobeys.py (the same text)        *)
(***************************************************************************)
PRICE_SHAPED == {"price", "pricing", "prices", "regularPrice"}

PRODUCT_MARKERS == {<<"P", "r", "o", "d", "u", "c", "t">>, <<"S", "e", "l", "l", "a", "b", "l", "e", "P", "r", "o", "d", "u", "c", "t">>}

HasPriceShape(node) == \E key \in PRICE_SHAPED : HasKey(node, key)

LooksLikeProduct(node) ==
    \/ IsStr(ItemGet(node, "__typename")) /\ Val(ItemGet(node, "__typename")) \in PRODUCT_MARKERS
    \/ IsStr(ItemGet(node, "name")) /\ HasPriceShape(node)
    \/ IsStr(ItemGet(node, "title")) /\ HasPriceShape(node)

\* walk(node) appends the node, then walks its values in their order: also
\* the values of a node it has just appended
RECURSIVE Walk(_), WalkEach(_)
Walk(node) ==
    IF IsObj(node)
    THEN (IF LooksLikeProduct(node) THEN <<node>> ELSE <<>>) \o WalkEach(Values(node))
    ELSE IF IsList(node) THEN WalkEach(Val(node))
    ELSE <<>>

WalkEach(nodes) ==
    IF nodes = <<>> THEN <<>> ELSE Walk(Head(nodes)) \o WalkEach(Tail(nodes))

CollectProducts(tree) == Walk(tree)

\* _unique_identifier
IDENTIFIER_KEYS == <<"sku", "id", "productId", "code", "gtin", "upc">>

UniqueIdentifier(item) ==
    LET present == {i \in 1..Len(IDENTIFIER_KEYS) : ~Falsy(ItemGet(item, IDENTIFIER_KEYS[i]))} IN
    IF present # {}
    THEN PyStr(ItemGet(item, IDENTIFIER_KEYS[CHOOSE i \in present : \A j \in present : i <= j]))
    ELSE PyStr(OrElse(OrElse(ItemGet(item, "name"), ItemGet(item, "title")), Str(<<"u", "n", "k", "n", "o", "w", "n">>)))

\* name = item.get("name") or item.get("title")
NameOrTitle(item) == OrElse(ItemGet(item, "name"), ItemGet(item, "title"))

(***************************************************************************)
(* _extract_quantity of superstore.py and of walmart2.py                   *)
(***************************************************************************)
QUANTITY_KEYS == <<"packageSizing", "size", "quantity", "format", "packaging",
                   "unitQuantity", "volumePrice">>

\* the alternatives (?:L|ML|g|kg|oz|lb|pack|count|piece) in their order,
\* lower-cased for re.IGNORECASE; Superstore's pattern ends with |ct
SizeUnits(st) ==
    <<<<"l">>,
      <<"m", "l">>,
      <<"g">>,
      <<"k", "g">>,
      <<"o", "z">>,
      <<"l", "b">>,
      <<"p", "a", "c", "k">>,
      <<"c", "o", "u", "n", "t">>,
      <<"p", "i", "e", "c", "e">>>>
    \o (IF st = "superstore" THEN <<<<"c", "t">>>> ELSE <<>>)

\* last index of the maximal run of whitespace that starts at i
SpaceRunEnd(t, i) ==
    CHOOSE j \in (i - 1)..Len(t) :
        /\ \A k \in i..j : IsSpace(t[k])
        /\ (j = Len(t) \/ ~IsSpace(t[j + 1]))

UnitAt(t, i, unit) ==
    /\ i + Len(unit) - 1 <= Len(t)
    /\ \A k \in 1..Len(unit) : LowerChar(t[i + k - 1]) = unit[k]

\* the alternatives that match at i; giving back digits or spaces never
\* helps, for no alternative starts with a digit or a space
UnitsAt(t, i, units) == {u \in 1..Len(units) : UnitAt(t, i, units[u])}

SizeMatchesAt(t, i, units) ==
    IsDigit(t[i]) /\ UnitsAt(t, SpaceRunEnd(t, DigitRunEnd(t, i) + 1) + 1, units) # {}

SizeGroup(t, i, units, at) ==
    SubSeq(t, i, at + Len(units[CHOOSE u \in UnitsAt(t, at, units) :
                                    \A v \in UnitsAt(t, at, units) : u <= v]) - 1)

\* re.search(r'(\d+\s*(?:...))', name, re.IGNORECASE): group 1 or None
SizeSearch(t, units) ==
    LET starts == {i \in 1..Len(t) : SizeMatchesAt(t, i, units)} IN
    IF starts = {} THEN None
    ELSE Str(SizeGroup(t, CHOOSE i \in starts : \A j \in starts : i <= j, units,
                       SpaceRunEnd(t, DigitRunEnd(t, CHOOSE i \in starts : \A j \in starts : i <= j) + 1) + 1))

\* the first of the quantity keys whose value is a str with something in it
QuantityField(item) ==
    LET usable == {i \in 1..Len(QUANTITY_KEYS) :
                      /\ IsStr(ItemGet(item, QUANTITY_KEYS[i]))
                      /\ Strip(Val(ItemGet(item, QUANTITY_KEYS[i]))) # <<>>} IN
    IF usable = {} THEN None
    ELSE Str(Strip(Val(ItemGet(item, QUANTITY_KEYS[CHOOSE i \in usable : \A j \in usable : i <= j]))))

\* the text the pattern is searched in: Superstore takes
\* product.get("title") or product.get("name") or "", Walmart item.get("name", "")
QuantityText(st, item) ==
    IF st = "superstore"
    THEN OrElse(OrElse(ItemGet(item, "title"), ItemGet(item, "name")), Str(<<>>))
    ELSE ItemGetOr(item, "name", Str(<<>>))

\* re.search on a value that is not a str raises TypeError
FromText(st, text) ==
    IF Falsy(text) THEN None
    ELSE IF ~IsStr(text) THEN Raise("TypeError")
    ELSE SizeSearch(Val(text), SizeUnits(st))

ExtractQuantity(st, item) ==
    IF QuantityField(item) # None THEN QuantityField(item)
    ELSE FromText(st, QuantityText(st, item))

(***************************************************************************)
(* Prices.  _strip_currency, _normalize_price, _extract_unit_price and     *)
(* _extract_price_fields of superstore.py and sobeys.py (the key lists     *)
(* differ), _extract_price_and_unit of walmart2.py.                        *)
(***************************************************************************)
IsBool(v) == v[1] = "bool"

\* float(text) succeeds on digits with at most one dot and at least one digit
IsDecimalText(t) ==
    /\ \A i \in 1..Len(t) : IsDigit(t[i]) \/ t[i] = "."
    /\ \E i \in 1..Len(t) : IsDigit(t[i])
    /\ Cardinality({i \in 1..Len(t) : t[i] = "."}) <= 1

\* float(text): a float is in cents; one with more than two decimals is
\* kept as its decimal
FloatOfDecimal(dec) ==
    IF dec.k <= 2 THEN Num(dec.n * Pow10(2 - dec.k)) ELSE Num(dec)

FloatOfText(t) == FloatOfDecimal(DecimalOf(t))

\* float(v) of an int, a bool or a float
FloatOfNumber(v) ==
    IF IsInt(v) THEN Num(100 * Val(v))
    ELSE IF IsBool(v) THEN Num(IF Val(v) THEN 100 ELSE 0)
    ELSE v

\* re.sub(r"[^0-9.,]", "", val).replace(",", "")
PriceChars(c) == IsDigit(c) \/ c = "."

Cleaned(val) == SelectSeq(val, PriceChars)

StripCurrency(val) ==
    IF IsDecimalText(Cleaned(val)) THEN FloatOfText(Cleaned(val)) ELSE None

NORMALIZE_KEYS(st) ==
    IF st = "superstore"
    THEN <<"sale", "current", "list", "regular", "price", "amount", "value", "priceValue">>
    ELSE <<"price", "salePrice", "regularPrice", "current", "amount", "value", "list">>

\* _normalize_price(v); on a dict, the first key of the list whose value
\* normalizes to a price
RECURSIVE NormalizePrice(_, _), NormalizeFirst(_, _, _)
NormalizePrice(st, v) ==
    IF v = None THEN None
    ELSE IF IsInt(v) \/ IsBool(v) \/ IsNum(v) THEN FloatOfNumber(v)
    ELSE IF IsStr(v) THEN StripCurrency(Val(v))
    ELSE IF IsObj(v) THEN NormalizeFirst(st, v, NORMALIZE_KEYS(st))
    ELSE None

NormalizeFirst(st, v, keys) ==
    IF keys = <<>> THEN None
    ELSE IF HasKey(v, Head(keys)) /\ NormalizePrice(st, ItemGet(v, Head(keys))) # None
    THEN NormalizePrice(st, ItemGet(v, Head(keys)))
    ELSE NormalizeFirst(st, v, Tail(keys))

UNIT_PRICE_KEYS(st) ==
    IF st = "superstore"
    THEN <<"unitPrice", "unit", "pricePerUnit", "comparisonPrice">>
    ELSE <<"unitPrice", "comparisonPrice", "pricePer", "pricePerUnit">>

RECURSIVE UnitPriceFirst(_, _)
UnitPriceFirst(v, keys) ==
    IF keys = <<>> THEN None
    ELSE IF HasKey(v, Head(keys)) /\ IsStr(ItemGet(v, Head(keys)))
    THEN Str(Strip(Val(ItemGet(v, Head(keys)))))
    ELSE UnitPriceFirst(v, Tail(keys))

\* _extract_unit_price(v)
ExtractUnitPrice(st, v) ==
    IF IsStr(v) THEN Str(Strip(Val(v)))
    ELSE IF IsObj(v) THEN UnitPriceFirst(v, UNIT_PRICE_KEYS(st))
    ELSE None

PRICING_KEYS(st) ==
    IF st = "superstore"
    THEN <<"price", "current", "regular", "sale", "list", "value", "priceValue">>
    ELSE <<"price", "salePrice", "regularPrice", "current", "amount", "value", "list">>

\* pricing = item.get("pricing") or item.get("price") or item.get("prices")
Pricing(item) ==
    OrElse(OrElse(ItemGet(item, "pricing"), ItemGet(item, "price")), ItemGet(item, "prices"))

\* for key in (...): if price is None and key in pricing: price = ...
RECURSIVE PricingPrice(_, _, _, _)
PricingPrice(st, pricing, keys, price) ==
    IF keys = <<>> THEN price
    ELSE PricingPrice(st, pricing, Tail(keys),
                      IF price = None /\ HasKey(pricing, Head(keys))
                      THEN NormalizePrice(st, ItemGet(pricing, Head(keys)))
                      ELSE price)

\* if price is None and key in item: price = _normalize_price(item.get(key))
DirectPrice(st, item, key, price) ==
    IF price = None /\ HasKey(item, key)
    THEN NormalizePrice(st, ItemGet(item, key)) ELSE price

\* the price of _extract_price_fields(item)
ExtractPrice(st, item) ==
    DirectPrice(st, item, "regularPrice",
        DirectPrice(st, item, "price",
            IF IsObj(Pricing(item))
            THEN PricingPrice(st, Pricing(item), PRICING_KEYS(st), None)
            ELSE None))

\* the unit price of _extract_price_fields(item)
ExtractUnitPriceField(st, item) ==
    IF IsObj(Pricing(item)) /\ ExtractUnitPrice(st, Pricing(item)) # None
    THEN ExtractUnitPrice(st, Pricing(item))
    ELSE ExtractUnitPrice(st, item)

\* d.get(k1) or d.get(k2) or d.get(k3)
FirstTruthy(d, k1, k2, k3) ==
    OrElse(OrElse(ItemGet(d, k1), ItemGet(d, k2)), ItemGet(d, k3))

\* price_info = item.get("priceInfo") or {}
PriceInfo(item) == OrElse(ItemGet(item, "priceInfo"), Obj(<<>>))

\* curr = price_info.get("currentPrice") or price_info.get("price")
CurrentPrice(price_info) ==
    OrElse(ItemGet(price_info, "currentPrice"), ItemGet(price_info, "price"))

\* a value that may be a dict with the price inside
Unwrapped(v) ==
    IF IsObj(v) THEN FirstTruthy(v, "price", "value", "priceString") ELSE v

LinePrice(price_info) ==
    IF IsObj(ItemGet(price_info, "linePrice"))
    THEN FirstTruthy(ItemGet(price_info, "linePrice"), "price", "value", "priceString")
    ELSE None

\* Primary: priceInfo variations
PrimaryPrice(item) ==
    IF ~IsObj(PriceInfo(item)) THEN None
    ELSE IF Unwrapped(CurrentPrice(PriceInfo(item))) # None
    THEN Unwrapped(CurrentPrice(PriceInfo(item)))
    ELSE LinePrice(PriceInfo(item))

\* offers = item.get("offers") or item.get("offer")
Offers(item) == OrElse(ItemGet(item, "offers"), ItemGet(item, "offer"))

\* Secondary: offers / offer(s)
SecondaryPrice(item, price) ==
    IF price # None THEN price
    ELSE IF IsObj(Offers(item))
    THEN FirstTruthy(Offers(item), "price", "priceString", "amount")
    ELSE IF IsList(Offers(item)) /\ Val(Offers(item)) # <<>> /\ IsObj(Val(Offers(item))[1])
    THEN FirstTruthy(Val(Offers(item))[1], "price", "priceString", "amount")
    ELSE None

PRICE_CANDIDATES == <<"productPrice", "sellingPrice", "price", "salePrice">>

\* Tertiary: other common keys
RECURSIVE TertiaryPrice(_, _, _)
TertiaryPrice(item, keys, price) ==
    IF keys = <<>> THEN price
    ELSE TertiaryPrice(item, Tail(keys),
                       IF price = None THEN Unwrapped(ItemGet(item, Head(keys))) ELSE price)

\* str.replace(sub, "")
RECURSIVE Without(_, _)
Without(t, sub) ==
    IF Len(t) < Len(sub) THEN t
    ELSE IF SubSeq(t, 1, Len(sub)) = sub THEN Without(SubSeq(t, Len(sub) + 1, Len(t)), sub)
    ELSE <<Head(t)>> \o Without(Tail(t), sub)

\* p = price.strip(); for s in ("$", "CAD", "USD"): p = p.replace(s, "").strip()
WithoutCurrency(t) ==
    Strip(Without(Strip(Without(Strip(Without(Strip(t), <<"$">>)), <<"C", "A", "D">>)),
                  <<"U", "S", "D">>))

NoCommas(t) == SelectSeq(t, LAMBDA c : c # ",")

NoDots(t) == SelectSeq(t, LAMBDA c : c # ".")

\* str.isdigit()
AllDigits(t) == t # <<>> /\ \A i \in 1..Len(t) : IsDigit(t[i])

\* the conversion of a str price: float(p) when p without commas and dots
\* is all digits; a float() that raises leaves the price as it was
ParsedPrice(price) ==
    IF ~IsStr(price) THEN price
    ELSE IF /\ AllDigits(NoDots(NoCommas(WithoutCurrency(Val(price)))))
            /\ IsDecimalText(NoCommas(WithoutCurrency(Val(price))))
    THEN FloatOfText(NoCommas(WithoutCurrency(Val(price))))
    ELSE price

\* if isinstance(price, dict): price = price.get("price") or ...
UnwrappedAgain(price) ==
    IF IsObj(price) THEN FirstTruthy(price, "price", "value", "amount") ELSE price

\* the price of _extract_price_and_unit(item)
ExtractPriceAndUnit(item) ==
    ParsedPrice(UnwrappedAgain(
        TertiaryPrice(item, PRICE_CANDIDATES, SecondaryPrice(item, PrimaryPrice(item)))))

\* the unit price of _extract_price_and_unit(item)
WalmartUnitPrice(item) ==
    IF IsObj(PriceInfo(item)) /\ IsObj(ItemGet(PriceInfo(item), "unitPrice"))
    THEN FirstTruthy(ItemGet(PriceInfo(item), "unitPrice"), "priceString", "price", "value")
    ELSE None

\* the price and the unit price of a record
RecordPrice(st, item) ==
    IF st = "walmart" THEN ExtractPriceAndUnit(item) ELSE ExtractPrice(st, item)

RecordUnitPrice(st, item) ==
    IF st = "walmart" THEN WalmartUnitPrice(item) ELSE ExtractUnitPriceField(st, item)

(***************************************************************************)
(* Availability.  _is_available of superstore.py and sobeys.py (Sobeys     *)
(* reads inventoryStatus and sellable too), _extract_availability of       *)
(* walmart2.py.                                                            *)
(***************************************************************************)
\* str.upper()
UpperChar(c) ==
    IF \E i \in 1..Len(Lowers) : Lowers[i] = c
    THEN Uppers[CHOOSE i \in 1..Len(Lowers) : Lowers[i] = c] ELSE c

Upper(t) == [i \in 1..Len(t) |-> UpperChar(t[i])]

\* v is True
IsTrue(v) == v = Bool(TRUE)

AVAILABLE_PHRASES ==
    {<<"i", "n", " ", "s", "t", "o", "c", "k">>,
     <<"a", "v", "a", "i", "l", "a", "b", "l", "e">>,
     <<"a", "d", "d", " ", "t", "o", " ", "c", "a", "r", "t">>,
     <<"a", "v", "a", "i", "l", "a", "b", "l", "e", " ", "o", "n", "l", "i", "n", "e">>}

\* isinstance(val, str) and any(kw in val.lower() for kw in (...))
SaysAvailable(v) ==
    IsStr(v) /\ \E kw \in AVAILABLE_PHRASES : Contains(Lower(Val(v)), kw)

OUT_OF_STOCK == <<"O", "U", "T", "_", "O", "F", "_", "S", "T", "O", "C", "K">>

SOLD_OUT == <<"S", "O", "L", "D", "_", "O", "U", "T">>

UNAVAILABLE == <<"U", "N", "A", "V", "A", "I", "L", "A", "B", "L", "E">>

COMING_SOON == <<"C", "O", "M", "I", "N", "G", "_", "S", "O", "O", "N">>

IN_STOCK == <<"I", "N", "_", "S", "T", "O", "C", "K">>

INSTOCK == <<"I", "N", "S", "T", "O", "C", "K">>

AVAILABLE == <<"A", "V", "A", "I", "L", "A", "B", "L", "E">>

\* isinstance(status, str) and status.upper() in words
StatusIn(status, words) == IsStr(status) /\ Upper(Val(status)) \in words

AVAILABILITY_FIELDS(st) ==
    IF st = "sobeys"
    THEN {"availabilityStatus", "availability", "availabilityMessage", "availabilityText",
          "inventoryStatus"}
    ELSE {"availabilityStatus", "availability", "availabilityMessage", "availabilityText"}

AVAILABILITY_FLAGS(st) ==
    IF st = "sobeys"
    THEN {"isAvailable", "available", "buyable", "canAddToCart", "sellable"}
    ELSE {"isAvailable", "available", "buyable", "canAddToCart"}

\* status = item.get("availabilityStatus"); Sobeys: or item.get("inventoryStatus")
GenericStatus(st, item) ==
    IF st = "sobeys"
    THEN OrElse(ItemGet(item, "availabilityStatus"), ItemGet(item, "inventoryStatus"))
    ELSE ItemGet(item, "availabilityStatus")

\* _is_available(item)
IsAvailable(st, item) ==
    \/ \E key \in AVAILABILITY_FIELDS(st) : SaysAvailable(ItemGet(item, key))
    \/ \E key \in AVAILABILITY_FLAGS(st) : IsTrue(ItemGet(item, key))
    \/ /\ ExtractPrice(st, item) # None
       /\ ~StatusIn(GenericStatus(st, item), {OUT_OF_STOCK, SOLD_OUT, UNAVAILABLE})

\* isinstance(v, (int, float)) and v > 0, or a str of digits above zero
PositiveCount(v) ==
    \/ (IsInt(v) \/ IsNum(v)) /\ Val(v) > 0
    \/ IsBool(v) /\ Val(v)
    \/ IsStr(v) /\ AllDigits(Val(v)) /\ DigitsToInt(Val(v)) > 0

\* 4) inventory counts
Inventory(item) ==
    OrElse(OrElse(ItemGet(item, "inventory"), ItemGet(item, "inventoryInfo")),
           ItemGet(item, "inStoreAvailability"))

InventoryPositive(item) ==
    /\ IsObj(Inventory(item))
    /\ \E key \in {"availableQuantity", "quantity", "stock", "available"} :
           PositiveCount(ItemGet(Inventory(item), key))

\* 5) one offer: its availability words, or isAvailable is True
OfferAvailable(offer, words) ==
    \/ StatusIn(OrElse(ItemGet(offer, "availability"), ItemGet(offer, "availabilityStatus")), words)
    \/ IsTrue(ItemGet(offer, "isAvailable"))

OffersAvailable(item) ==
    IF IsObj(Offers(item))
    THEN OfferAvailable(Offers(item), {IN_STOCK, INSTOCK, AVAILABLE,
                                       <<"I", "N", "_", "S", "T", "O", "C", "K", "_", "O", "N", "L", "I", "N", "E">>})
    ELSE /\ IsList(Offers(item)) /\ Val(Offers(item)) # <<>>
         /\ IsObj(Val(Offers(item))[1])
         /\ OfferAvailable(Val(Offers(item))[1], {IN_STOCK, INSTOCK, AVAILABLE})

Fulfil(item) ==
    OrElse(OrElse(ItemGet(item, "fulfillment"), ItemGet(item, "fulfillmentInfo")),
           ItemGet(item, "fulfillmentOptions"))

FulfilAvailable(item) ==
    /\ IsObj(Fulfil(item))
    /\ (IsTrue(ItemGet(Fulfil(item), "isAvailable")) \/ IsTrue(ItemGet(Fulfil(item), "isFulfillable")))

\* 6) avail_msg
AvailMsg(item) ==
    OrElse(OrElse(ItemGet(item, "availabilityMessage"), ItemGet(item, "availabilityText")),
           ItemGet(item, "availability"))

\* 7) item.get("priceInfo") or item.get("price") or item.get("offers")
HasPriceOrOffer(item) ==
    ~Falsy(OrElse(OrElse(ItemGet(item, "priceInfo"), ItemGet(item, "price")), ItemGet(item, "offers")))

\* the rules 2) to 6)
PositiveSignal(item) ==
    \/ IsTrue(ItemGet(item, "canAddToCart"))
    \/ IsTrue(ItemGet(item, "showAtc"))
    \/ IsTrue(ItemGet(item, "showBuyNow"))
    \/ StatusIn(ItemGet(item, "availabilityStatus"),
                {IN_STOCK, INSTOCK, AVAILABLE, <<"I", "N", "_", "S", "T", "O", "R", "E">>,
                 <<"I", "N", "_", "S", "T", "O", "R", "E", "_", "O", "N", "L", "Y">>})
    \/ IsTrue(ItemGet(item, "isInStock"))
    \/ IsTrue(ItemGet(item, "isAvailable"))
    \/ InventoryPositive(item)
    \/ OffersAvailable(item)
    \/ FulfilAvailable(item)
    \/ SaysAvailable(AvailMsg(item))

\* _extract_availability(item)
ExtractAvailability(item) ==
    /\ ~IsTrue(ItemGet(item, "isOutOfStock"))
    /\ \/ PositiveSignal(item)
       \/ /\ HasPriceOrOffer(item)
          /\ ~StatusIn(ItemGet(item, "availabilityStatus"),
                       {OUT_OF_STOCK, SOLD_OUT, UNAVAILABLE, COMING_SOON})

\* the available of a record
RecordAvailable(st, item) ==
    IF st = "walmart" THEN ExtractAvailability(item) ELSE IsAvailable(st, item)

(***************************************************************************)
(* The item list of walmart2.py:488-507.  Each .get of the chain raises on *)
(* a value that is not a dict; so does iterating a value that is no list.  *)
(* The handler of the try returns [].                                      *)
(***************************************************************************)
\* d.get(key, default) where d may be anything
ChainGet(d, key, default) ==
    IF IsRaise(d) THEN d
    ELSE IF ~IsObj(d) THEN Raise("AttributeError")
    ELSE ItemGetOr(d, key, default)

\* what items.extend(v) appends, as a list, or the exception
Extended(v) ==
    IF IsList(v) THEN v
    ELSE IF IsStr(v) THEN List([i \in 1..Len(Val(v)) |-> Str(<<Val(v)[i]>>)])
    ELSE IF IsObj(v) THEN List([i \in 1..Len(Val(v)) |-> Str(<<Val(v)[i][1]>>)])
    ELSE Raise("TypeError")

\* items after the loop over the stacks, as a list, or the exception
RECURSIVE StackItems(_, _)
StackItems(stacks, sofar) ==
    IF stacks = <<>> THEN List(sofar)
    ELSE IF ~IsObj(Head(stacks)) THEN Raise("AttributeError")
    ELSE IF IsRaise(Extended(ItemGetOr(Head(stacks), "items", List(<<>>))))
    THEN Extended(ItemGetOr(Head(stacks), "items", List(<<>>)))
    ELSE StackItems(Tail(stacks),
                    sofar \o Val(Extended(ItemGetOr(Head(stacks), "items", List(<<>>)))))

ItemStacks(doc) ==
    ChainGet(ChainGet(ChainGet(ChainGet(ChainGet(doc, "props", Obj(<<>>)),
        "pageProps", Obj(<<>>)), "initialData", Obj(<<>>)),
        "searchResult", Obj(<<>>)), "itemStacks", List(<<>>))

\* the list items, None when the function returns [] for want of stacks,
\* or the exception the handler turns into []
WalmartItems(doc) ==
    IF IsRaise(ItemStacks(doc)) THEN ItemStacks(doc)
    ELSE IF Falsy(ItemStacks(doc)) THEN None
    ELSE IF ~IsList(ItemStacks(doc)) THEN Raise("TypeError")
    ELSE StackItems(Val(ItemStacks(doc)), <<>>)

(***************************************************************************)
(* One extraction pass: the loop over the collected nodes that builds the  *)
(* record list (superstore.py:312-345, sobeys.py:440-467,                  *)
(* walmart2.py:488-531).  A record carries, next to its fields, the node   *)
(* it was built from as item.                                              *)
(***************************************************************************)

\* a tagged product with a name and a sku, a multi-buy price, out of stock
MilkTagged ==
    Obj(<<<<"__typename", Str(<<"P", "r", "o", "d", "u", "c", "t">>)>>, <<"name", Str(<<"M", "i", "l", "k">>)>>, <<"sku", Str(<<"A", "1">>)>>, <<"price", Str(<<"2", "/", "$", "7">>)>>, <<"availabilityStatus", Str(OUT_OF_STOCK)>>>>)

\* another name under the same sku, the size in the name, flagged out of
\* stock
MilkSameSku ==
    Obj(<<<<"name", Str(<<"M", "i", "l", "k", " ", "2", " ", "L">>)>>, <<"sku", Str(<<"A", "1">>)>>, <<"price", Str(<<"$", "3", ".", "9", "8">>)>>, <<"isOutOfStock", Bool(TRUE)>>>>)

\* a title and no name, a numeric id
EggsTitled ==
    Obj(<<<<"title", Str(<<"E", "g", "g", "s">>)>>, <<"id", PyInt(7)>>, <<"pricing", Obj(<<<<"price", Num(350)>>>>)>>>>)

\* the id 7 as text, the status unavailable
EggsSameId ==
    Obj(<<<<"name", Str(<<"E", "g", "g", "s", " ", "1", "2", " ", "c", "t">>)>>, <<"id", Str(<<"7">>)>>, <<"price", Num(379)>>, <<"availabilityStatus", Str(UNAVAILABLE)>>>>)

\* tagged as a product, neither name nor title; flagged out of stock and
\* open to the cart
Nameless ==
    Obj(<<<<"__typename", Str(<<"P", "r", "o", "d", "u", "c", "t">>)>>, <<"price", Num(100)>>, <<"isOutOfStock", Bool(TRUE)>>, <<"canAddToCart", Bool(TRUE)>>>>)

\* no identifier key: the name identifies it
Bread ==
    Obj(<<<<"name", Str(<<"B", "r", "e", "a", "d">>)>>, <<"regularPrice", Num(250)>>, <<"size", Str(<<"6", "7", "5", " ", "g">>)>>>>)

\* an empty sku is passed over; a price that is no amount
BreadEmptySku ==
    Obj(<<<<"name", Str(<<"B", "r", "e", "a", "d">>)>>, <<"sku", Str(<<>>)>>, <<"price", Str(<<"N", "/", "A">>)>>>>)

\* a name, and a title that is an object
MilkTitleObject ==
    Obj(<<<<"name", Str(<<"M", "i", "l", "k">>)>>, <<"title", Obj(<<<<"text", Str(<<"M", "i", "l", "k">>)>>>>)>>, <<"price", Num(300)>>>>)

\* a name that is a number, a title that is text
JuiceNumberName ==
    Obj(<<<<"__typename", Str(<<"P", "r", "o", "d", "u", "c", "t">>)>>, <<"name", PyInt(5)>>, <<"title", Str(<<"J", "u", "i", "c", "e">>)>>, <<"price", Num(199)>>>>)

\* a tagged product priced under salePrice, no word on availability
CreamSalePrice ==
    Obj(<<<<"__typename", Str(<<"P", "r", "o", "d", "u", "c", "t">>)>>, <<"name", Str(<<"C", "r", "e", "a", "m">>)>>, <<"salePrice", Num(397)>>>>)

\* not product-like: no price-shaped key, no tag
Promo ==
    Obj(<<<<"name", Str(<<"P", "r", "o", "m", "o">>)>>, <<"sku", Str(<<"A", "1">>)>>>>)

Nodes == {MilkTagged, MilkSameSku, EggsTitled, EggsSameId, Nameless, Bread, BreadEmptySku, MilkTitleObject, JuiceNumberName, CreamSalePrice, Promo}

\* the nodes a third place of a document takes
LastNodes == {MilkTagged, EggsSameId, BreadEmptySku, Promo}

\* three nodes in one list, three levels down
Flat(a, b, c) ==
    Obj(<<<<"props", Obj(<<<<"pageProps", Obj(<<<<"results", List(<<a, b, c>>)>>>>)>>>>)>>>>)

\* c inside b inside a
Nested(a, b, c) ==
    Obj(<<<<"data", List(<<With(a, "variants", List(<<With(b, "related", c)>>))>>)>>>>)

\* three values of one dict
Siblings(a, b, c) ==
    Obj(<<<<"featured", a>>, <<"list", List(<<b>>)>>,
          <<"meta", Obj(<<<<"total", PyInt(3)>>, <<"top", c>>>>)>>>>)

\* the document of a Walmart search page: two stacks
Stacks(a, b, c) ==
    Obj(<<<<"props", Obj(<<<<"pageProps", Obj(<<<<"initialData", Obj(<<<<"searchResult",
        Obj(<<<<"itemStacks", List(<<Obj(<<<<"items", List(<<a, b>>)>>>>),
                                       Obj(<<<<"items", List(<<c>>)>>>>)>>)>>>>)>>>>)>>>>)>>>>)>>>>)

Documents ==
    {Flat(a, b, c) : a \in Nodes, b \in Nodes, c \in LastNodes}
    \cup {Nested(a, b, c) : a \in Nodes, b \in Nodes, c \in LastNodes}
    \cup {Siblings(a, b, c) : a \in Nodes, b \in Nodes, c \in LastNodes}
    \cup {Stacks(a, b, c) : a \in Nodes, b \in Nodes, c \in LastNodes}

ExtractInit ==
    /\ site \in Retailers
    /\ data \in Documents
    /\ found = Pending
    /\ pos = 1
    /\ seen = {}
    /\ emitted = <<>>
    /\ extract_ret = Pending

\* products = _collect_products(data); Walmart: the items of the stacks
Collect ==
    /\ found = Pending
    /\ extract_ret = Pending
    /\ IF site = "walmart"
       THEN IF WalmartItems(data) = None \/ IsRaise(WalmartItems(data))
            THEN found' = List(<<>>) /\ extract_ret' = Returned(<<>>)
            ELSE found' = WalmartItems(data) /\ UNCHANGED extract_ret
       ELSE found' = List(CollectProducts(data)) /\ UNCHANGED extract_ret
    /\ UNCHANGED <<site, data, pos, seen, emitted>>
    /\ UNCHANGED notExtractVars

InLoop ==
    /\ found # Pending
    /\ extract_ret = Pending
    /\ pos <= Len(Val(found))

\* the two "continue" of the generic loop before the identifier, and the
\* one of Walmart's loop
NotARecord(st, item) ==
    IF st = "walmart"
    THEN ~(/\ IsObj(item)
           /\ IsStr(ItemGet(item, "__typename"))
           /\ Val(ItemGet(item, "__typename")) = <<"P", "r", "o", "d", "u", "c", "t">>)
    ELSE ~(IsObj(item) /\ IsStr(NameOrTitle(item)))

\* Walmart's loop has no seen set
AlreadySeen(st, item, ids) ==
    st # "walmart" /\ UniqueIdentifier(item) \in ids

\* the record of the node; Sobeys' records have no quantity
RecordOf(st, item) ==
    IF st = "walmart"
    THEN [name |-> ItemGet(item, "name"), price |-> RecordPrice(st, item),
          unit_price |-> RecordUnitPrice(st, item),
          quantity |-> ExtractQuantity(st, item),
          available |-> RecordAvailable(st, item), item |-> item]
    ELSE IF st = "superstore"
    THEN [name |-> NameOrTitle(item), price |-> RecordPrice(st, item),
          unit_price |-> RecordUnitPrice(st, item),
          quantity |-> ExtractQuantity(st, item),
          available |-> RecordAvailable(st, item), item |-> item]
    ELSE [name |-> NameOrTitle(item), price |-> RecordPrice(st, item),
          unit_price |-> RecordUnitPrice(st, item),
          available |-> RecordAvailable(st, item), item |-> item]

QuantityRaises(st, item) ==
    st # "sobeys" /\ IsRaise(ExtractQuantity(st, item))

\* an iteration that ends in "continue"
SkipItem ==
    /\ InLoop
    /\ \/ NotARecord(site, Val(found)[pos])
       \/ AlreadySeen(site, Val(found)[pos], seen)
    /\ pos' = pos + 1
    /\ UNCHANGED <<site, data, found, seen, emitted, extract_ret>>
    /\ UNCHANGED notExtractVars

\* an iteration that appends a record
EmitRecord ==
    /\ InLoop
    /\ ~NotARecord(site, Val(found)[pos])
    /\ ~AlreadySeen(site, Val(found)[pos], seen)
    /\ ~QuantityRaises(site, Val(found)[pos])
    /\ seen' = IF site = "walmart" THEN seen
               ELSE seen \cup {UniqueIdentifier(Val(found)[pos])}
    /\ emitted' = Append(emitted, RecordOf(site, Val(found)[pos]))
    /\ pos' = pos + 1
    /\ UNCHANGED <<site, data, found, extract_ret>>
    /\ UNCHANGED notExtractVars

\* an iteration in which _extract_quantity raises: the handler of the
\* function's try returns []
LoopRaises ==
    /\ InLoop
    /\ ~NotARecord(site, Val(found)[pos])
    /\ ~AlreadySeen(site, Val(found)[pos], seen)
    /\ QuantityRaises(site, Val(found)[pos])
    /\ seen' = IF site = "walmart" THEN seen
               ELSE seen \cup {UniqueIdentifier(Val(found)[pos])}
    /\ extract_ret' = Returned(<<>>)
    /\ UNCHANGED <<site, data, found, pos, emitted>>
    /\ UNCHANGED notExtractVars

\* return results
ReturnResults ==
    /\ found # Pending
    /\ extract_ret = Pending
    /\ pos > Len(Val(found))
    /\ extract_ret' = Returned(emitted)
    /\ UNCHANGED <<site, data, found, pos, seen, emitted>>
    /\ UNCHANGED notExtractVars

ExtractNext ==
    \/ Collect
    \/ SkipItem
    \/ EmitRecord
    \/ LoopRaises
    \/ ReturnResults

\* the pipeline variables of a specification that runs no pipeline
PipeOff ==
    /\ retailer = "walmart"
    /\ pc = "Done"
    /\ attempt = 0
    /\ is_blocked = FALSE
    /\ has_data = FALSE
    /\ step = "none"
    /\ browser = "none"
    /\ ret = "pending"
    /\ failure = "none"
    /\ use_persistent_session = TRUE
    /\ session_io = <<>>

\* the variables of a specification that calls no _filter_and_rank
FilterOff ==
    /\ query = <<>>
    /\ items = <<>>
    /\ limit = DefaultLimit
    /\ filtered = <<>>
    /\ ranked = Pending

\* the variables of a specification that runs no search
SearchOff ==
    /\ products = <<>>
    /\ idx = 1
    /\ phase = "done"
    /\ scraped = <<>>
    /\ results = <<>>
    /\ deals = <<>>

\* the variables of a specification that makes no single enrichment call
EnrichOff ==
    /\ extracted = <<>>
    /\ enriched = Pending
    /\ reenriched = Pending

\* the variables of a specification that runs no extraction pass
ExtractOff ==
    /\ site = "walmart"
    /\ data = None
    /\ found = Pending
    /\ pos = 1
    /\ seen = {}
    /\ emitted = <<>>
    /\ extract_ret = Pending

vars == <<pipeVars, rateVars, selVars, filterVars, searchVars, enrichVars, extractVars>>

\* one retailer pipeline call
Init == PipeInit /\ RateInit /\ SelInit /\ FilterOff /\ SearchOff /\ EnrichOff /\ ExtractOff

Next == PipeNext

Spec == Init /\ [][Next]_vars

\* the same call run to its end: the event loop resumes the coroutine of
\* the call after each await, every sleep is finite and every wait on the
\* browser has a timeout, so a step that can be taken is taken
SpecLive == Init /\ [][Next]_vars /\ WF_vars(Next)

\* the rate-limit gate under successive calls
InitRate == PipeOff /\ RateInit /\ SelInit /\ FilterOff /\ SearchOff /\ EnrichOff /\ ExtractOff

SpecRate == InitRate /\ [][RateNext]_vars

\* the rate-limit gate under two calls in one event loop
InitConc == PipeOff /\ ConcInit /\ SelInit /\ FilterOff /\ SearchOff /\ EnrichOff /\ ExtractOff

SpecConc == InitConc /\ [][ConcNext]_vars

\* the cheapest-option selector on the records of two stores
InitSelect == PipeOff /\ RateInit /\ SelInit /\ FilterOff /\ SearchOff /\ EnrichOff /\ ExtractOff

SpecSelect == InitSelect /\ [][SelNext]_vars

\* one call of _filter_and_rank
InitFilter == PipeOff /\ RateInit /\ SelInit /\ FilterInit /\ SearchOff /\ EnrichOff /\ ExtractOff

SpecFilter == InitFilter /\ [][FilterNext]_vars

\* search_all_products and the comparison of its results
InitSearch == PipeOff /\ RateInit /\ SelInit /\ FilterOff /\ SearchInit /\ EnrichOff /\ ExtractOff

SpecSearch == InitSearch /\ [][SearchNext]_vars

\* _enrich_unit_prices on one record, twice
InitEnrich == PipeOff /\ RateInit /\ SelInit /\ FilterOff /\ SearchOff /\ EnrichInit /\ ExtractOff

SpecEnrich == InitEnrich /\ [][EnrichNext]_vars

\* one extraction pass of one retailer over one document
InitExtract ==
    PipeOff /\ RateInit /\ SelInit /\ FilterOff /\ SearchOff /\ EnrichOff /\ ExtractInit

SpecExtract == InitExtract /\ [][ExtractNext]_vars

(***************************************************************************)
(* Properties of the pipelines                                             *)
(***************************************************************************)

\* the branches of the loop body an inspection ends in when both of its
\* findings were made
InspectionBranches == {"blocked_wait", "break", "idle_wait", "give_up"}

\* C1: in the polling loop of each retailer pipeline, an inspection that
\* finds a block phrase and the data marker both present leaves the loop
\* for extraction on that same attempt, and the blocked-wait branch is
\* never taken with the marker present.
C1_MarkerWins ==
    /\ [][ (pc = "PollingForData" /\ step' \in InspectionBranches
             /\ (attempt' # attempt \/ pc' # pc \/ step' # step)
             /\ is_blocked' /\ has_data')
           => (step' = "break" /\ pc' = AfterPolling(retailer)
               /\ attempt' = attempt) ]_vars
    /\ [](step = "blocked_wait" => ~has_data)

C1_Witness ==
    /\ retailer = "sobeys"
    /\ pc = "Extracting"
    /\ step = "break"
    /\ is_blocked /\ has_data
    /\ attempt > 0

\* C2: a pipeline call in which a step failed ends by returning an empty
\* list; no exception reaches the caller.
C2_FailedRunReturnsEmpty ==
    (pc = "Done" /\ failure # "none") => ret = "empty"

\* C4: successive calls leave the rate-limit gate at least
\* MIN_REQUEST_INTERVAL apart; a call that arrives earlier than that after
\* the previous one left sleeps the remaining time plus the jitter; the
\* first call does not wait.
C4_GateSpacing ==
    /\ \A i \in 1..Len(gate_log) :
         LET c == gate_log[i] IN
         /\ (i = 1 => c.slept = 0 /\ c.left = Num(c.arrived))
         /\ (i > 1 /\ c.left # None) =>
               LET prev == Val(gate_log[i - 1].left)
                   elapsed == c.arrived - prev
               IN /\ Val(c.left) - prev >= MIN_REQUEST_INTERVAL
                  /\ (elapsed < MIN_REQUEST_INTERVAL =>
                        /\ c.slept >= MIN_REQUEST_INTERVAL - elapsed + JitterMin
                        /\ Val(c.left) >= c.arrived + c.slept)
                  /\ (elapsed >= MIN_REQUEST_INTERVAL => c.slept = 0)

C4_Witness ==
    /\ Len(gate_log) = MaxCalls
    /\ gate_log[2].slept > 0
    /\ gate_log[2].left # None
    /\ gate_log[3].left # None
    /\ gate_log[3].slept = 0

(***************************************************************************)
(* Properties of the cheapest-option selector                              *)
(***************************************************************************)
SelStores == {"walmart", "superstore"}

\* the records handed to the selector, by place
SelPlaces == {<<s, k>> : s \in SelStores, k \in 1..MaxItems + 1}
RecPlaces == {p \in SelPlaces : p[2] <= Len(stores_dict[p[1]])}
RecAt(p) == stores_dict[p[1]][p[2]]
PricedPlaces == {p \in RecPlaces : RecAt(p).price # None}
HasNormalizedUnitPrice(r) ==
    /\ "unit_prices" \in DOMAIN r
    /\ Len(r.unit_prices) > 0
    /\ "normalized_amount" \in DOMAIN r.unit_prices[1]
NormalizedPlaces == {p \in PricedPlaces : HasNormalizedUnitPrice(RecAt(p))}
\* the records the winner is chosen among
ComparedPlaces == IF NormalizedPlaces # {} THEN NormalizedPlaces ELSE PricedPlaces
Winner == Val(Val(best))
Unavailable(r) == IF r.available THEN 0 ELSE 1
NormalizedAmount(r) == Val(r.unit_prices[1].normalized_amount)

\* C5 as stated: whenever some priced record of any store is available,
\* the winner is an available record.
C5_AvailableWinsAmongAllPriced ==
    (best # Pending /\ \E p \in PricedPlaces : RecAt(p).available)
        => (IsDict(Val(best)) /\ Winner.item.available)

\* C5, amended: whenever some record of the compared set (the priced
\* records with a normalized unit price when there is one, all priced
\* records otherwise) is available, the winner is an available record.
C5_AvailableWinsAmongCompared ==
    (best # Pending /\ \E p \in ComparedPlaces : RecAt(p).available)
        => (IsDict(Val(best)) /\ Winner.item.available)

\* A 3.00 unavailable, B 3.50 available, no unit prices: B wins on total price
C5_Witness ==
    /\ best # Pending
    /\ NormalizedPlaces = {}
    /\ \E p \in PricedPlaces :
         ~RecAt(p).available /\ p[1] = "walmart" /\ RecAt(p).price = Num(300)
    /\ IsDict(Val(best))
    /\ Winner.store = "superstore"
    /\ Winner.item.available
    /\ Winner.item.price = Num(350)
    /\ Winner.comparison_type = "total_price"

\* C6: with a priced record that has a normalized unit price, the winner is
\* one of those records, minimal under (not available, normalized amount),
\* tagged unit_price; otherwise it is minimal under (not available, price)
\* among all priced records, tagged total_price.
C6_WinnerIsMinimal ==
    (best # Pending /\ PricedPlaces # {}) =>
        /\ IsDict(Val(best))
        /\ IF NormalizedPlaces # {}
           THEN /\ Winner.comparison_type = "unit_price"
                /\ \E w \in NormalizedPlaces :
                     /\ RecAt(w) = Winner.item
                     /\ \A p \in NormalizedPlaces :
                          \/ Unavailable(RecAt(w)) < Unavailable(RecAt(p))
                          \/ /\ Unavailable(RecAt(w)) = Unavailable(RecAt(p))
                             /\ NormalizedAmount(RecAt(w)) <= NormalizedAmount(RecAt(p))
           ELSE /\ Winner.comparison_type = "total_price"
                /\ \E w \in PricedPlaces :
                     /\ RecAt(w) = Winner.item
                     /\ \A p \in PricedPlaces :
                          \/ Unavailable(RecAt(w)) < Unavailable(RecAt(p))
                          \/ /\ Unavailable(RecAt(w)) = Unavailable(RecAt(p))
                             /\ Val(RecAt(w).price) <= Val(RecAt(p).price)

\* the winner has the lower normalized amount and the higher price, and a
\* cheaper priced record without a normalized amount is passed over
C6_Witness ==
    /\ best # Pending
    /\ IsDict(Val(best))
    /\ Winner.comparison_type = "unit_price"
    /\ Winner.item.price = Num(350)
    /\ \E p \in NormalizedPlaces :
         /\ RecAt(p).available = Winner.item.available
         /\ RecAt(p).price = Num(300)
         /\ NormalizedAmount(RecAt(p)) > NormalizedAmount(Winner.item)
    /\ \E p \in PricedPlaces \ NormalizedPlaces :
         RecAt(p).available /\ RecAt(p).price = Num(300)

\* C7: the selector returns None exactly when no list holds a record with a
\* price; a winner is a record of the list of the store it is labelled
\* with, and has a price.
C7_NoneIffNothingPriced ==
    best # Pending =>
        /\ (Val(best) = None) <=> (PricedPlaces = {})
        /\ IsDict(Val(best)) =>
             \E p \in PricedPlaces : p[1] = Winner.store /\ RecAt(p) = Winner.item

\* records without a price in both lists, and None for an answer
C7_Witness ==
    /\ best # Pending
    /\ Val(best) = None
    /\ Len(stores_dict.walmart) > 0
    /\ Len(stores_dict.superstore) > 0

(***************************************************************************)
(* Properties of the relevance filter and of _filter_and_rank              *)
(***************************************************************************)
RankDone == ranked # Pending
RankedList == Val(Val(ranked))
RecordText(r) ==
    Lower(TextOrEmpty(r, "name") \o <<" ">> \o TextOrEmpty(r, "quantity")
          \o <<" ">> \o TextOrEmpty(r, "unit_price"))
NegativeIn(r) == \E neg \in NEGATIVE_TERMS : Contains(RecordText(r), neg)
KeptByFilter(r) == \E j \in 1..Len(filtered) : filtered[j] = r
QueryTokens == Tokenize(query)
Threshold ==
    IF Cardinality(QueryTokens) \div 2 > 2 THEN Cardinality(QueryTokens) \div 2 ELSE 2
TokensShared(r) == Cardinality(QueryTokens \cap Tokenize(RecordText(r)))
TokensOccurring(r) == Cardinality({t \in QueryTokens : Contains(RecordText(r), t)})

\* C9: whatever the query and the overlap of its tokens with the records,
\* no record of the list _filter_and_rank returns has a combined text (name,
\* quantity, unit-price string, lower-cased) that contains a negative term.
C9_NoNegativeTermInOutput ==
    (RankDone /\ IsList(Val(ranked))) =>
        \A k \in 1..Len(RankedList) : ~NegativeIn(RankedList[k])

\* the query "Chocolate Eggs" on a list with an "Easter Chocolate Eggs"
\* record, which holds both query tokens, and with a record that is returned
C9_Witness ==
    /\ RankDone /\ IsList(Val(ranked))
    /\ query = <<"C", "h", "o", "c", "o", "l", "a", "t", "e", " ", "E", "g", "g", "s">>
    /\ Len(RankedList) >= 1
    /\ \E k \in 1..Len(items) :
           /\ Contains(RecordText(items[k]), <<"e", "a", "s", "t", "e", "r">>)
           /\ TokensOccurring(items[k]) = 2

RankReturned == RankDone /\ IsList(Val(ranked))
HasUnitPricesKey(r) == "unit_prices" \in DOMAIN r
PriceOf(r) == Get(r, "price")
\* a sorts strictly before b under (price is None, price)
SortsBefore(a, b) ==
    \/ PriceOf(a) # None /\ PriceOf(b) = None
    \/ IsNum(PriceOf(a)) /\ IsNum(PriceOf(b)) /\ Val(PriceOf(a)) < Val(PriceOf(b))
    \/ IsStr(PriceOf(a)) /\ IsStr(PriceOf(b)) /\ TextLess(Val(PriceOf(a)), Val(PriceOf(b)))
\* the ways to pick Len(RankedList) survivors, in output order
Picks ==
    {f \in [1..Len(RankedList) -> 1..Len(filtered)] :
        \A i, j \in 1..Len(RankedList) : i # j => f[i] # f[j]}
\* f picks the first records of the stable sort of the survivors
PicksSortedPrefix(f) ==
    /\ \A i, j \in 1..Len(RankedList) :
           i < j => \/ SortsBefore(filtered[f[i]], filtered[f[j]])
                    \/ (~SortsBefore(filtered[f[j]], filtered[f[i]]) /\ f[i] < f[j])
    /\ \A i \in 1..Len(RankedList) :
           \A m \in (1..Len(filtered)) \ {f[k] : k \in 1..Len(RankedList)} :
               \/ SortsBefore(filtered[f[i]], filtered[m])
               \/ (~SortsBefore(filtered[m], filtered[f[i]]) /\ f[i] < m)

\* C11: a list returned by _filter_and_rank has at most limit records; a
\* record with a price precedes every record without one; the priced
\* records are in non-decreasing price order; and the list is the enrichment
\* of the first limit records of the stable sort of the survivors, no more.
C11_RankedPrefix ==
    RankReturned =>
        /\ Len(RankedList) <= limit
        /\ Len(RankedList) = IF Len(filtered) < limit THEN Len(filtered) ELSE limit
        /\ \A i, j \in 1..Len(RankedList) :
               i < j =>
                   /\ PriceOf(RankedList[i]) = None => PriceOf(RankedList[j]) = None
                   /\ (IsNum(PriceOf(RankedList[i])) /\ IsNum(PriceOf(RankedList[j])))
                          => Val(PriceOf(RankedList[i])) <= Val(PriceOf(RankedList[j]))
        /\ \E f \in Picks :
               /\ PicksSortedPrefix(f)
               /\ \A k \in 1..Len(RankedList) :
                      Dict(RankedList[k]) = EnrichUnitPrices(filtered[f[k]])

\* limit 1 on a list whose record without a price comes first and whose
\* priced record second: the priced record alone is returned, enriched
C11_Witness ==
    /\ RankReturned
    /\ limit = 1
    /\ Len(items) = 2 /\ Len(filtered) = 2
    /\ PriceOf(items[1]) = None /\ IsNum(PriceOf(items[2]))
    /\ Len(RankedList) = 1
    /\ RankedList[1].price = items[2].price
    /\ "unit_prices" \in DOMAIN RankedList[1]

RankStep == ranked = Pending /\ ranked' # Pending
DerivedKeys == {"unit_prices", "unit_price_display"}

EnrichDone == enriched # Pending
EnrichReturned == EnrichDone /\ IsDict(Val(enriched))
Enriched == Val(Val(enriched))
HasUnitPrices(r) == "unit_prices" \in DOMAIN r
Computed(r) == HasUnitPrices(r) /\ "normalized_amount" \in DOMAIN r.unit_prices[1]

\* C12: a record whose unit price text is "$0.86/100ml" is enriched with
\* the unit price 0.0086 per ml, whatever its quantity text is.
C12_DeclaredUnitPriceIsAuthoritative ==
    (EnrichDone /\ extracted.unit_price = Str(<<"$", "0", ".", "8", "6", "/", "1", "0", "0", "m", "l">>)) =>
        /\ EnrichReturned
        /\ HasUnitPrices(Enriched)
        /\ Len(Enriched.unit_prices) = 1
        /\ Enriched.unit_prices[1].amount = Ratio(43, 5000)
        /\ Enriched.unit_prices[1].per = Str(<<"m", "l">>)

TwoLitresOfJuice ==
    /\ extracted.name = Str(<<"O", "r", "a", "n", "g", "e", " ", "J", "u", "i", "c", "e">>)
    /\ extracted.quantity = Str(<<"2", " ", "L">>)
    /\ extracted.price = Num(398)

\* C13 as stated: a beverage of "2 L" at 3.98 gets the normalized per-ml
\* amount 0.00199 and the display "$0.20/100ml".
C13_TwoLitresExact ==
    (EnrichDone /\ TwoLitresOfJuice) =>
        /\ EnrichReturned /\ Computed(Enriched)
        /\ 10 * Val(Enriched.unit_prices[1].normalized_amount) = 199
        /\ Enriched.unit_price_display = Str(<<"$", "0", ".", "2", "0", "/", "1", "0", "0", "m", "l">>)

\* C13 amended: a beverage of "2 L" at 3.98 gets the normalized per-ml
\* amount 0.002, which is 3.98 / 2000 rounded to four decimals, and the
\* display "$0.20/100ml".
C13_TwoLitresRounded ==
    (EnrichDone /\ TwoLitresOfJuice) =>
        /\ EnrichReturned /\ Computed(Enriched)
        /\ Enriched.unit_prices[1].normalized_amount = E4(20)
        /\ Enriched.unit_price_display = Str(<<"$", "0", ".", "2", "0", "/", "1", "0", "0", "m", "l">>)

C13_Witness == EnrichDone /\ TwoLitresOfJuice /\ EnrichReturned /\ Computed(Enriched)

\* the parsed amount a / 10^k and the factor num / den of the record's unit
ParsedAmount == Val(ParseQuantityAndUnit(extracted.quantity)).amount
FactorOf == UNIT_CONVERSIONS[ResolveUnit(Val(ParseQuantityAndUnit(extracted.quantity)).unit)]
\* normalized_amount * amount * factor - price, in 1/10000 of a dollar and
\* scaled by 10^k * den
ScaledError ==
    Val(Enriched.unit_prices[1].normalized_amount) * ParsedAmount.n * FactorOf.num
    - 100 * Val(extracted.price) * Pow10(ParsedAmount.k) * FactorOf.den
Magnitude(x) == IF x < 0 THEN 0 - x ELSE x
\* the record was normalized with a unit that is a key of the table
TableUnit ==
    /\ EnrichReturned /\ Computed(Enriched)
    /\ \E i \in 1..Len(UNIT_CONVERSIONS) :
           UNIT_CONVERSIONS[i].key = Val(ParseQuantityAndUnit(extracted.quantity)).unit

\* C14 as stated: for a price > 0, an amount > 0 and a unit of the table,
\* normalized_amount * amount * factor is within one cent of the price.
C14_WithinOneCent ==
    TableUnit =>
        Magnitude(ScaledError) <= 100 * Pow10(ParsedAmount.k) * FactorOf.den

\* C14 amended: normalized_amount is within 0.00005 of price / (amount *
\* factor), so normalized_amount * amount * factor is within
\* 0.00005 * amount * factor of the price.
C14_WithinHalfOfLastDecimal ==
    TableUnit =>
        2 * Magnitude(ScaledError) <= ParsedAmount.n * FactorOf.num

\* 3.98 for "12 oz": a unit with a fractional factor
C14_Witness ==
    /\ TableUnit
    /\ extracted.quantity = Str(<<"1", "2", " ", "o", "z">>)
    /\ extracted.price = Num(398)
    /\ ScaledError # 0

Derived(r) == [k \in DOMAIN r \cap {"unit_prices", "unit_price_display"} |-> r[k]]

\* C15: enriching the record a first enrichment returned returns a record
\* with the same unit_prices and unit_price_display, on the explicit path,
\* on the computed path and when nothing is derived.
C15_EnrichIdempotent ==
    reenriched # Pending =>
        /\ IsDict(Val(reenriched))
        /\ Derived(Val(Val(reenriched))) = Derived(Enriched)
        /\ Val(Val(reenriched)) = Enriched

\* a second enrichment on the computed path
C15_Witness ==
    /\ reenriched # Pending
    /\ Computed(Enriched)
    /\ IsDict(Val(reenriched)) /\ Computed(Val(Val(reenriched)))

(***************************************************************************)
(* Properties of search_all_products and of the comparison                 *)
(***************************************************************************)
Searching == phase \in {"superstore", "walmart"}
OtherStore(st) == IF st = "walmart" THEN "superstore" ELSE "walmart"
\* the step of one retailer failed: its scrape raised or returned nothing,
\* or _filter_and_rank raised on what it returned
StepFailed(product, outcome) ==
    \/ IsRaise(outcome)
    \/ Val(outcome) = <<>>
    \/ IsRaise(FilterAndRank(product, Val(outcome), DefaultLimit))
WentOn ==
    \/ phase = "superstore" /\ phase' = "walmart" /\ idx' = idx
    \/ phase = "walmart" /\ idx < Len(products) /\ phase' = "begin" /\ idx' = idx + 1
    \/ phase = "walmart" /\ idx = Len(products) /\ phase' = "compare"

\* C3: a step of search_all_products changes nothing stored for another
\* product; the step of one retailer leaves the other retailer's list of the
\* same product as it is; when that step fails (the scrape or
\* _filter_and_rank raises, or the scrape returns nothing) the retailer's
\* own entry is the empty list and the loop goes on to its next step; once
\* the loop has ended every product has both entries.
C3_FailureIsLocal ==
    /\ [][ /\ \A p \in DOMAIN results :
                 (phase \in {"begin", "superstore", "walmart"} /\ p # products[idx])
                     => (p \in DOMAIN results' /\ results'[p] = results[p])
           /\ Searching =>
                 /\ products[idx] \in DOMAIN results'
                 /\ results'[products[idx]][OtherStore(phase)]
                        = results[products[idx]][OtherStore(phase)]
                 /\ StepFailed(products[idx], scraped'[idx][phase]) =>
                        /\ results'[products[idx]][phase] = <<>>
                        /\ WentOn ]_vars
    /\ [](phase \in {"compare", "done"} =>
            \A k \in 1..Len(products) :
                /\ products[k] \in DOMAIN results
                /\ DOMAIN results[products[k]] = {"walmart", "superstore"})

\* the Walmart step of the second product has failed on a str price, next
\* to ranked Superstore records of that product and of the first product,
\* and the loop is at the third product
C3_Witness ==
    /\ products = PRODUCTS_TO_SEARCH
    /\ idx = 3 /\ phase = "begin"
    /\ IsList(scraped[2].walmart) /\ Val(scraped[2].walmart) # <<>>
    /\ StepFailed(products[2], scraped[2].walmart)
    /\ results[products[2]].walmart = <<>>
    /\ results[products[2]].superstore # <<>>
    /\ results[products[1]].superstore # <<>>
    /\ results[products[1]].walmart # <<>>

\* a list of one priced record with a quantity the normalizer parses
OnePricedQuantified(outcome) ==
    /\ IsList(outcome) /\ Len(Val(outcome)) = 1
    /\ IsNum(Val(outcome)[1].price)
    /\ ParseQuantityAndUnit(Val(outcome)[1].quantity) # None

\* C8: for the product "milk", when Walmart returns a milk record of 4 L at
\* $7.00 and Superstore one of 1 L at $2.00, the best deal found after
\* _filter_and_rank on each list is the 4 L record, on unit-price basis.
C8_LowerUnitPriceWins ==
    ( /\ phase = "done"
      /\ products = <<<<"m", "i", "l", "k">>>>
      /\ OnePricedQuantified(scraped[1].walmart)
      /\ OnePricedQuantified(scraped[1].superstore) )
    => /\ deals[1] # None
       /\ Val(deals[1]).store = "walmart"
       /\ Val(deals[1]).comparison_type = "unit_price"
       /\ Val(deals[1]).item.price = Num(700)
       /\ Val(deals[1]).item.quantity = Str(<<"4", " ", "L">>)

(***************************************************************************)
(* Termination of a pipeline call                                          *)
(***************************************************************************)
\* one inspection of the page by the polling loop
Inspection ==
    /\ pc = "PollingForData"
    /\ <<pc, attempt, step, is_blocked, has_data, failure>>'
          # <<pc, attempt, step, is_blocked, has_data, failure>>

\* an inspection is made under the attempt budget, and it either uses up
\* one attempt or leaves the loop, which is not entered again: the loop
\* makes at most AttemptBudget(retailer) inspections
PollingWithinBudget ==
    /\ [][Inspection => /\ attempt < AttemptBudget(retailer)
                        /\ (attempt' = attempt + 1 \/ pc' # "PollingForData")]_vars
    /\ [][(pc' = "PollingForData" /\ pc # "PollingForData")
             => (pc = "Navigating" /\ attempt' = 0)]_vars
    /\ [](attempt <= AttemptBudget(retailer))

\* the call ends, by a return or by an exception
EveryCallEnds == <>(pc = "Done")

\* C20: every pipeline call ends, under every outcome of its inspections,
\* by returning a record list or an empty list, and its polling loop
\* makes at most AttemptBudget(retailer) inspections: 120 for Walmart, 60
\* for Superstore and Sobeys.
C20_EveryCallReturnsAList ==
    /\ <>(pc = "Done" /\ ret \in {"results", "empty"})
    /\ PollingWithinBudget

\* a call whose every inspection found the page blocked and no marker has
\* used up its budget and returned []
BlockedToTheEnd ==
    /\ retailer = "superstore"
    /\ pc = "Done" /\ ret = "empty"
    /\ attempt = AttemptBudget(retailer)
    /\ step = "blocked_wait"

(***************************************************************************)
(* Properties of the extraction pass                                       *)
(***************************************************************************)
PassReturned == extract_ret # Pending
Output == Val(extract_ret)
Generic == site \in {"superstore", "sobeys"}

\* the values below a node, in their order
Children(node) ==
    IF IsObj(node) THEN Values(node) ELSE IF IsList(node) THEN Val(node) ELSE <<>>

\* a place in a tree is the sequence of child positions that leads to it
RECURSIVE PlacesUnder(_, _)
PlacesUnder(node, place) ==
    {place} \cup UNION {PlacesUnder(Children(node)[i], Append(place, i)) :
                           i \in 1..Len(Children(node))}

RECURSIVE NodeAt(_, _)
NodeAt(node, place) ==
    IF place = <<>> THEN node ELSE NodeAt(Children(node)[Head(place)], Tail(place))

\* depth-first order: a node before the nodes below it, and the nodes
\* under an earlier child before those under a later one
MetBefore(p, q) ==
    \E k \in 1..Len(q) :
        /\ Len(p) >= k - 1
        /\ \A j \in 1..(k - 1) : p[j] = q[j]
        /\ (Len(p) = k - 1 \/ p[k] < q[k])

\* the product-like nodes that have a name, at any depth
NamedProducts ==
    {p \in PlacesUnder(data, <<>>) :
        /\ IsObj(NodeAt(data, p))
        /\ LooksLikeProduct(NodeAt(data, p))
        /\ IsStr(NameOrTitle(NodeAt(data, p)))}

IdentifierAt(p) == UniqueIdentifier(NodeAt(data, p))

\* for each identifier, the named product-like node met first
FirstMet ==
    {p \in NamedProducts :
        \A q \in NamedProducts : IdentifierAt(q) = IdentifierAt(p) => ~MetBefore(q, p)}

PlaceInOutput(p) == 1 + Cardinality({q \in FirstMet : MetBefore(q, p)})

OneRecordPerIdentifier ==
    /\ Len(Output) = Cardinality(FirstMet)
    /\ \A p \in FirstMet :
          /\ Output[PlaceInOutput(p)].item = NodeAt(data, p)
          /\ Output[PlaceInOutput(p)].name = NameOrTitle(NodeAt(data, p))

\* C17: the generic extraction of Superstore and Sobeys returns, for every
\* document, one record for each identifier found among the named
\* product-like nodes at any depth, nodes inside product-like nodes
\* included; the record of an identifier is built from the node met first
\* in depth-first order, and the records are in the order in which their
\* nodes are met.
C17_OneRecordPerIdentifier ==
    (Generic /\ PassReturned) => OneRecordPerIdentifier

\* the same where no call of _extract_quantity raised: every pass of Sobeys,
\* and the passes of Superstore over the documents in which no named
\* product-like node has a title or a name that is no str
NoNodeRaises ==
    \A p \in NamedProducts : ~QuantityRaises(site, NodeAt(data, p))

GenericFirstSeenUnlessRaised ==
    (Generic /\ PassReturned /\ NoNodeRaises) => OneRecordPerIdentifier

\* product-like nodes nested in one another, the innermost repeating the
\* identifier of the middle one: two records from three collected nodes
NestedAndRepeated ==
    /\ Generic /\ PassReturned
    /\ data = Nested(MilkTagged, EggsTitled, EggsSameId)
    /\ Len(Output) = 2

\* C18: in every pipeline, Walmart's too, no two records of a returned
\* list have the same identifier (the first of sku, id, productId, code,
\* gtin, upc that is there, else the name): of the nodes that share an
\* identifier only the first gives a record.
C18_NoSharedIdentifier ==
    PassReturned =>
        \A i \in 1..Len(Output) : \A j \in 1..Len(Output) :
            UniqueIdentifier(Output[i].item) = UniqueIdentifier(Output[j].item) => i = j

\* the same for the two pipelines that keep a seen set
GenericNoSharedIdentifier ==
    (Generic /\ PassReturned) =>
        \A i \in 1..Len(Output) : \A j \in 1..Len(Output) :
            UniqueIdentifier(Output[i].item) = UniqueIdentifier(Output[j].item) => i = j

\* C19: the name of every record a pipeline returns is a str; a product
\* node without a name gives no record.
C19_EveryRecordNamed ==
    PassReturned => \A i \in 1..Len(Output) : IsStr(Output[i].name)

\* the same for the two pipelines that test the name
GenericEveryRecordNamed ==
    (Generic /\ PassReturned) => \A i \in 1..Len(Output) : IsStr(Output[i].name)

(***************************************************************************)
(* Further properties of the pipelines                                     *)
(***************************************************************************)
\* an inspection that made both of its findings
FullInspection == Inspection /\ step' \in InspectionBranches

\* C21: an inspection that finds a block phrase and no data marker keeps
\* the call in the polling loop: it uses up one attempt, starts no
\* extraction and returns nothing, and the loop goes on while attempts are
\* left; an inspection that finds the marker, at whatever attempt of the
\* budget, leaves the loop for extraction at that attempt.
C21_BlockedStaysInPolling ==
    /\ [][(FullInspection /\ is_blocked' /\ ~has_data')
            => /\ step' = "blocked_wait"
               /\ attempt' = attempt + 1
               /\ ret' = "pending"
               /\ pc' = IF attempt' < AttemptBudget(retailer)
                        THEN "PollingForData" ELSE AfterPolling(retailer)]_vars
    /\ [][(FullInspection /\ has_data')
            => /\ step' = "break"
               /\ attempt' = attempt
               /\ pc' = AfterPolling(retailer)]_vars
    /\ []((step = "blocked_wait" /\ attempt < AttemptBudget(retailer))
            => (pc = "PollingForData" /\ ret = "pending"))

\* Sobeys, blocked at every inspection well past the attempt at which it
\* gives up an unblocked page, then the marker: extraction at attempt 40
C21_Witness ==
    /\ retailer = "sobeys"
    /\ pc = "Extracting"
    /\ step = "break"
    /\ attempt = 40
    /\ has_data /\ ~is_blocked

SessionWritten == \E k \in 1..Len(session_io) : session_io[k] = "write"

C23_SessionWrittenOnlyOnSuccess ==
    /\ [][session_io' # session_io =>
            \/ /\ session_io' = Append(session_io, "write")
               /\ pc = "SaveSession" /\ retailer = "walmart"
               /\ use_persistent_session /\ failure = "none"
            \/ /\ session_io' = Append(session_io, "read")
               /\ pc = "Setup" /\ retailer = "walmart"
               /\ use_persistent_session /\ session_io = <<>>]_vars
    /\ [][pc' = "SaveSession" => pc = "FieldExtract"]_vars
    /\ [][pc' = "FieldExtract" => pc = "Extracting"]_vars
    /\ [](SessionWritten => pc \in {"CloseResults", "ScopeExit", "Done"})
    /\ [](pc = "Done" /\ SessionWritten => ret = "results")
    /\ [](pc = "Done" /\ failure \in {"launch", "setup", "navigation", "inspect",
                                      "block", "document", "extract", "not_found"}
            => ~SessionWritten)

C23_Witness ==
    /\ retailer = "walmart" /\ pc = "Done" /\ ret = "results"
    /\ session_io = <<"read", "write">>

\* an int or a float
IsNumber(v) == IsNum(v) \/ IsInt(v)

\* C24: the price of every record a pipeline returns is None or a number;
\* a price given as text that cannot be read as a decimal gives None.
C24_PriceNoneOrNumber ==
    PassReturned =>
        \A i \in 1..Len(Output) : Output[i].price = None \/ IsNumber(Output[i].price)

\* the same for the two pipelines whose prices go through _normalize_price
GenericPriceNoneOrNumber ==
    (Generic /\ PassReturned) =>
        \A i \in 1..Len(Output) : Output[i].price = None \/ IsNum(Output[i].price)

\* a generic pass returned a record whose price text was no amount
UnreadablePriceDropped ==
    /\ Generic /\ PassReturned
    /\ \E i \in 1..Len(Output) :
        /\ IsStr(ItemGet(Output[i].item, "price"))
        /\ Output[i].price = None

\* the record was built from a node flagged out of stock
FlaggedOutOfStock(r) == IsTrue(ItemGet(r.item, "isOutOfStock"))

\* C25: in each retailer's inference, a record whose node carries an
\* explicit out-of-stock flag is unavailable, whatever else the node
\* carries.
C25_OutOfStockFlagWins ==
    PassReturned =>
        \A i \in 1..Len(Output) : FlaggedOutOfStock(Output[i]) => ~Output[i].available

\* the same for Walmart, whose inference tests the flag first
WalmartOutOfStockFlagWins ==
    (site = "walmart" /\ PassReturned) =>
        \A i \in 1..Len(Output) : FlaggedOutOfStock(Output[i]) => ~Output[i].available

\* Walmart returned a record flagged out of stock and open to the cart
WalmartFlagAgainstCart ==
    /\ site = "walmart" /\ PassReturned
    /\ \E i \in 1..Len(Output) :
        /\ FlaggedOutOfStock(Output[i])
        /\ IsTrue(ItemGet(Output[i].item, "canAddToCart"))
        /\ ~Output[i].available

\* every key an availability inference reads, the status apart
AVAILABILITY_KEYS ==
    {"isOutOfStock", "canAddToCart", "showAtc", "showBuyNow", "isInStock", "isAvailable",
     "available", "buyable", "sellable", "availability", "availabilityMessage",
     "availabilityText", "inventoryStatus", "inventory", "inventoryInfo",
     "inStoreAvailability", "offers", "offer", "fulfillment", "fulfillmentInfo",
     "fulfillmentOptions"}

NoOtherAvailability(r) == \A key \in AVAILABILITY_KEYS : ~HasKey(r.item, key)

NegativeStatus(r) ==
    StatusIn(ItemGet(r.item, "availabilityStatus"), {OUT_OF_STOCK, SOLD_OUT, UNAVAILABLE})

\* a priced record with a negative status and nothing else on availability
\* is unavailable
NegativeStatusUnavailable ==
    PassReturned =>
        \A i \in 1..Len(Output) :
            (Output[i].price # None /\ NegativeStatus(Output[i]) /\ NoOtherAvailability(Output[i]))
                => ~Output[i].available

\* a priced record with no status and nothing else on availability is
\* available
PricedDefaultAvailable ==
    PassReturned =>
        \A i \in 1..Len(Output) :
            (/\ Output[i].price # None
             /\ ~HasKey(Output[i].item, "availabilityStatus")
             /\ NoOtherAvailability(Output[i]))
                => Output[i].available

\* C26: in each retailer's inference, a priced record whose status is
\* OUT_OF_STOCK, SOLD_OUT or UNAVAILABLE and which has no other availability
\* field or flag is unavailable; a priced record with no status and no
\* other availability field is available.
C26_StatusDecidesPricedRecord ==
    NegativeStatusUnavailable /\ PricedDefaultAvailable

\* the first half for Walmart, the second for Superstore and Sobeys
WalmartNegativeStatusUnavailable ==
    site = "walmart" => NegativeStatusUnavailable

GenericPricedDefaultAvailable ==
    Generic => PricedDefaultAvailable

\* the first group of PRODUCT_TYPE_KEYWORDS one of whose keywords occurs in
\* the name: the category of the record (0: unknown)
CategoryOf(name) ==
    LET hits == {i \in 1..Len(PRODUCT_TYPE_KEYWORDS) :
                    \E kw \in PRODUCT_TYPE_KEYWORDS[i].keywords : Contains(Lower(name), kw)}
    IN IF hits = {} THEN 0 ELSE CHOOSE i \in hits : \A j \in hits : i <= j

EndsWith(text, suffix) ==
    /\ Len(suffix) <= Len(text)
    /\ SubSeq(text, Len(text) - Len(suffix) + 1, Len(text)) = suffix

\* the display of the enriched record names the display unit of group g
DisplayedPer(g) ==
    EndsWith(Val(Enriched.unit_price_display),
             <<"/">> \o (IF g = 0 THEN <<"u", "n", "i", "t">>
                         ELSE PRODUCT_TYPE_KEYWORDS[g].display_unit))

NormalizedWithName ==
    EnrichReturned /\ Computed(Enriched) /\ IsStr(extracted.name)

\* C27: a record with a computed normalized unit price is displayed per the
\* display unit of the category its name is detected in: 100ml beverages,
\* 100g meat, baked goods and grains, lb produce, 1ea eggs, 1roll paper
\* goods; a record of unknown category is displayed per plain unit.
C27_DisplayUnitOfCategory ==
    NormalizedWithName => DisplayedPer(CategoryOf(Val(extracted.name)))

\* the groups whose type no earlier group has
FirstOfType(g) ==
    g = 0 \/ \A h \in 1..(g - 1) : PRODUCT_TYPE_KEYWORDS[h].ptype # PRODUCT_TYPE_KEYWORDS[g].ptype

\* what holds: the display unit is that of the first group that has the
\* type of the record's category
DisplayUnitOfType ==
    NormalizedWithName =>
        \E g \in 0..Len(PRODUCT_TYPE_KEYWORDS) :
            /\ FirstOfType(g)
            /\ g = 0 <=> CategoryOf(Val(extracted.name)) = 0
            /\ g # 0 => PRODUCT_TYPE_KEYWORDS[g].ptype
                            = PRODUCT_TYPE_KEYWORDS[CategoryOf(Val(extracted.name))].ptype
            /\ DisplayedPer(g)

\* paper goods displayed per 1ea
PaperPerEach ==
    /\ NormalizedWithName
    /\ CategoryOf(Val(extracted.name)) = 6
    /\ EndsWith(Val(Enriched.unit_price_display), <<"/", "1", "e", "a">>)

(***************************************************************************)
(* Properties of the gate under concurrent calls                           *)
(***************************************************************************)
HasLeft(c) == gate_pc[c] = "left"

Apart(a, b) == IF a >= b THEN a - b ELSE b - a

\* C28: with two concurrent calls, interleaved at every await, the instants
\* at which the calls leave the gate are at least MIN_REQUEST_INTERVAL
\* apart, and no two calls have read the same last-request timestamp.
C28_ConcurrentCallsSpaced ==
    \A c \in Callers : \A d \in Callers :
        (c # d /\ HasLeft(c) /\ HasLeft(d)) =>
            /\ Apart(Val(gate_log[c].left), Val(gate_log[d].left)) >= MIN_REQUEST_INTERVAL
            /\ ~(IsNum(gate_log[c].read) /\ gate_log[c].read = gate_log[d].read)

\* what holds: a call that found a stamp younger than the interval leaves
\* the gate no earlier than the interval and the least jitter after it
LeavesAfterTheStampItRead ==
    \A c \in Callers :
        (HasLeft(c) /\ gate_log[c].slept > 0) =>
            Val(gate_log[c].left) >= Val(gate_log[c].read) + MIN_REQUEST_INTERVAL + JitterMin

\* two calls slept on the same stamp and left within the jitter range
SleptOnTheSameStamp ==
    /\ HasLeft(1) /\ HasLeft(2)
    /\ gate_log[1].slept > 0 /\ gate_log[2].slept > 0
    /\ gate_log[1].read = gate_log[2].read
    /\ Apart(Val(gate_log[1].left), Val(gate_log[2].left)) <= JitterMax - JitterMin

(***************************************************************************)
(* Further properties of the search and of the selector                    *)
(***************************************************************************)
OneToken(product) == Cardinality(Tokenize(product)) = 1

OneTokenQueryKeepsNothing ==
    (RankDone /\ OneToken(query)) => Val(ranked) = List(<<>>)

\* the records of the two lists of product i, by place
ListedPlaces(i) ==
    {p \in SelStores \X (1..DefaultLimit) : p[2] <= Len(results[products[i]][p[1]])}

Listed(i, p) == results[products[i]][p[1]][p[2]]

\* the quantity text of the record declares a unit price: the record went
\* through the explicit branch of the enrichment
DeclaredUnitPrice(r) == ExtractExplicitUnitPrice(Get(r, "quantity")) # None

\* C30: a record enriched through the explicit branch carries unit_prices
\* without normalized_amount; the selector does not count it among the
\* records with a normalized unit price, so it never wins on unit price,
\* and it does not win at all when another priced record has a computed
\* normalized amount.  Stated of the lists and the deals of a finished
\* search.
C30_DeclaredUnitPriceNotCompared ==
    phase = "done" => \A i \in 1..Len(deals) :
        /\ \A p \in ListedPlaces(i) :
               DeclaredUnitPrice(Listed(i, p)) =>
                   /\ HasUnitPrices(Listed(i, p))
                   /\ ~HasNormalizedUnitPrice(Listed(i, p))
        /\ (/\ IsDict(deals[i])
            /\ \/ Val(deals[i]).comparison_type = "unit_price"
               \/ \E p \in ListedPlaces(i) :
                      Priced(Listed(i, p)) /\ HasNormalizedUnitPrice(Listed(i, p)))
               => ~DeclaredUnitPrice(Val(deals[i]).item)

\* a record with a declared unit price, cheaper by price and by unit, loses
\* to the record with a computed normalized amount
C30_Witness ==
    /\ phase = "done"
    /\ IsDict(deals[1])
    /\ Val(deals[1]).comparison_type = "unit_price"
    /\ Val(deals[1]).store = "walmart"
    /\ \E p \in ListedPlaces(1) :
           /\ p[1] = "superstore"
           /\ DeclaredUnitPrice(Listed(1, p))
           /\ Listed(1, p).available
           /\ Val(Listed(1, p).price) < Val(Val(deals[1]).item.price)
           /\ 10000 * Listed(1, p).unit_prices[1].amount[2]
                < Val(Val(deals[1]).item.unit_prices[1].normalized_amount)
                    * Listed(1, p).unit_prices[1].amount[3]

=============================================================================
